---- MODULE Spec2Model ----
(***************************************************************************)
(* Verification model of the spreadsheet component                         *)
(* (frontend/src/components/Spreadsheet.tsx) and its host page             *)
(* (frontend/src/app/page.tsx).                                            *)
(*                                                                         *)
(* Text is a sequence of one-character strings.  Row arrays live in a heap *)
(* (row object id -> sequence of cells) because the handlers write cells   *)
(* into row arrays IN PLACE (updated[row][col] = ...) while the outer      *)
(* array and the cells themselves are always replaced by fresh objects.    *)
(* A handler reads the state of the render it was created in; state        *)
(* setters only take effect for the next render, so saveToHistory() called *)
(* inside a handler snapshots the gridData array of that render (with the  *)
(* in-place writes made so far), not the array passed to setGridData.      *)
(***************************************************************************)
EXTENDS Integers, Sequences, FiniteSets, TLC

\* ------------------------------------------------------------------------
\* Bounds of the model
\* ------------------------------------------------------------------------
MaxRecords == 2
MaxEdits == 1
MaxRows == 3
MaxCols == 3
MaxTotalRows == 24
MaxFormulaLen == 3

\* ------------------------------------------------------------------------
\* Program constants
\* ------------------------------------------------------------------------
ROW_HEIGHT == 40
BUFFER_SIZE == 10
DefaultColumnWidth == 150
DefaultRowHeight == 40

\* ------------------------------------------------------------------------
\* Text helpers (JavaScript string primitives used by the component)
\* ------------------------------------------------------------------------
UpperLetters == <<"A","B","C","D","E","F","G","H","I","J","K","L","M",
                  "N","O","P","Q","R","S","T","U","V","W","X","Y","Z">>
LowerLetters == <<"a","b","c","d","e","f","g","h","i","j","k","l","m",
                  "n","o","p","q","r","s","t","u","v","w","x","y","z">>
DigitChars == <<"0","1","2","3","4","5","6","7","8","9">>

Range(s) == { s[i] : i \in DOMAIN s }
IsUpper(c) == c \in Range(UpperLetters)
IsLower(c) == c \in Range(LowerLetters)
IsDigit(c) == c \in Range(DigitChars)
\* \s of a JavaScript regular expression, for the characters the model uses
IsSpace(c) == c \in {" ", "\t", "\n"}

IndexIn(s, c) == CHOOSE i \in DOMAIN s : s[i] = c
DigitVal(c) == IndexIn(DigitChars, c) - 1
\* letter.charCodeAt(i) - 65 for an upper-case letter
LetterOrd(c) == IndexIn(UpperLetters, c) - 1

ToUpperChar(c) == IF IsLower(c) THEN UpperLetters[IndexIn(LowerLetters, c)] ELSE c
ToLowerChar(c) == IF IsUpper(c) THEN LowerLetters[IndexIn(UpperLetters, c)] ELSE c
ToUpperCase(t) == [i \in DOMAIN t |-> ToUpperChar(t[i])]
ToLowerCase(t) == [i \in DOMAIN t |-> ToLowerChar(t[i])]

RECURSIVE TrimStart(_)
TrimStart(t) == IF t # <<>> /\ IsSpace(Head(t)) THEN TrimStart(Tail(t)) ELSE t
RECURSIVE TrimEnd(_)
TrimEnd(t) ==
  IF t # <<>> /\ IsSpace(t[Len(t)]) THEN TrimEnd(SubSeq(t, 1, Len(t) - 1)) ELSE t
Trim(t) == TrimEnd(TrimStart(t))

StartsWith(t, p) == Len(t) >= Len(p) /\ SubSeq(t, 1, Len(p)) = p
Includes(t, c) == c \in Range(t)
\* t.slice(n, -1)
SliceDropLast(t, n) == SubSeq(t, n + 1, Len(t) - 1)

\* t.split(c): the pieces between the occurrences of the character c
RECURSIVE SplitAcc(_, _, _)
SplitAcc(t, c, cur) ==
  IF t = <<>> THEN <<cur>>
  ELSE IF Head(t) = c THEN <<cur>> \o SplitAcc(Tail(t), c, <<>>)
  ELSE SplitAcc(Tail(t), c, Append(cur, Head(t)))
Split(t, c) == SplitAcc(t, c, <<>>)

\* length of the longest prefix of t whose characters satisfy the class
RECURSIVE UpperRun(_)
UpperRun(t) == IF t # <<>> /\ IsUpper(Head(t)) THEN 1 + UpperRun(Tail(t)) ELSE 0
RECURSIVE DigitRun(_)
DigitRun(t) == IF t # <<>> /\ IsDigit(Head(t)) THEN 1 + DigitRun(Tail(t)) ELSE 0

\* parseInt(digits, 10) for a non-empty run of digits
RECURSIVE ParseInt(_)
ParseInt(d) ==
  IF d = <<>> THEN 0 ELSE ParseInt(SubSeq(d, 1, Len(d) - 1)) * 10 + DigitVal(d[Len(d)])

RECURSIVE NatToText(_)
NatToText(n) ==
  IF n < 10 THEN <<DigitChars[n + 1]>>
  ELSE Append(NatToText(n \div 10), DigitChars[(n % 10) + 1])
IntToText(n) == IF n < 0 THEN <<"-">> \o NatToText(-n) ELSE NatToText(n)

\* ------------------------------------------------------------------------
\* Values, cells and their JSON round trip
\* ------------------------------------------------------------------------
\* A JavaScript value held in a cell: a string, a finite number n/d, NaN,
\* +/-Infinity (sign in n), or null (what JSON makes of NaN and Infinity).
\* "jsval" is the value of eval(s) || 0 for an expression s outside the
\* arithmetic fragment that JsEval computes; the specifications never store
\* it in a grid.
Str(s) == [t |-> "str", n |-> 0, d |-> 1, s |-> s]
Num(n) == [t |-> "num", n |-> n, d |-> 1, s |-> <<>>]
Frac(n, d) == [t |-> "num", n |-> n, d |-> d, s |-> <<>>]
NaN == [t |-> "nan", n |-> 0, d |-> 1, s |-> <<>>]
Infinity(sign) == [t |-> "inf", n |-> sign, d |-> 1, s |-> <<>>]
Null == [t |-> "null", n |-> 0, d |-> 1, s |-> <<>>]
JsVal(s) == [t |-> "jsval", n |-> 0, d |-> 1, s |-> s]
EmptyString == Str(<<>>)
ErrorMarker == Str(<<"#","E","R","R","O","R","!">>)

\* typeof v === 'number'
TypeofNumber(v) == v.t \in {"num", "nan", "inf"}
\* !v
Falsy(v) ==
  \/ v.t = "str" /\ v.s = <<>>
  \/ v.t = "num" /\ v.n = 0
  \/ v.t \in {"nan", "null"}

\* a key that the object does not have / a key whose value is undefined
AbsentKey == <<"<absent>">>
UndefinedValue == <<"<undefined>">>

EmptyFormat == [bold |-> "absent", italic |-> "absent", alignment |-> "absent"]
\* { value: v, format: {} }
NewCell(v) == [value |-> v, format |-> EmptyFormat, formula |-> AbsentKey]
EmptyCell == NewCell(EmptyString)

\* JSON.parse(JSON.stringify(x)) on a value: NaN and +/-Infinity become null
JsonValue(v) == IF v.t \in {"nan", "inf"} THEN Null ELSE v
\* ... on a cell: a key whose value is undefined is dropped
JsonCell(c) ==
  [value |-> JsonValue(c.value),
   format |-> c.format,
   formula |-> IF c.formula = UndefinedValue THEN AbsentKey ELSE c.formula]
JsonRow(r) == [j \in DOMAIN r |-> JsonCell(r[j])]
\* ... on a row matrix given by value
JsonGrid(g) == [i \in DOMAIN g |-> JsonRow(g[i])]

\* Deep equality as the repository's test framework defines it (toEqual):
\* a key holding undefined equals a missing key, NaN equals NaN.
EqForm(c) ==
  [value |-> c.value, format |-> c.format,
   formula |-> IF c.formula = UndefinedValue THEN AbsentKey ELSE c.formula]
EqFormGrid(g) == [i \in DOMAIN g |-> [j \in DOMAIN g[i] |-> EqForm(g[i][j])]]
DeepEqual(g1, g2) == EqFormGrid(g1) = EqFormGrid(g2)

\* ------------------------------------------------------------------------
\* Number arithmetic used by the formula functions and by eval
\* ------------------------------------------------------------------------
Abs(x) == IF x < 0 THEN -x ELSE x
Min2(a, b) == IF a <= b THEN a ELSE b
Max2(a, b) == IF a >= b THEN a ELSE b
RECURSIVE Gcd(_, _)
Gcd(a, b) == IF b = 0 THEN a ELSE Gcd(b, a % b)
Normal(n, d) ==
  LET g == Gcd(Abs(n), d) IN IF n = 0 THEN Num(0) ELSE Frac(n \div g, d \div g)

\* a + b on numbers
NumAdd(a, b) ==
  IF a.t = "nan" \/ b.t = "nan" THEN NaN
  ELSE IF a.t = "inf" /\ b.t = "inf" THEN (IF a.n = b.n THEN a ELSE NaN)
  ELSE IF a.t = "inf" THEN a
  ELSE IF b.t = "inf" THEN b
  ELSE Normal(a.n * b.d + b.n * a.d, a.d * b.d)
\* sign of a - b (-1, 0, 1) for two numbers that are not NaN
NumCmp(a, b) ==
  IF a.t = "inf" /\ b.t = "inf" THEN (IF a.n = b.n THEN 0 ELSE a.n)
  ELSE IF a.t = "inf" THEN a.n
  ELSE IF b.t = "inf" THEN -b.n
  ELSE LET x == a.n * b.d - b.n * a.d IN IF x < 0 THEN -1 ELSE IF x > 0 THEN 1 ELSE 0
\* a / k for an integer k > 0
NumDivInt(a, k) ==
  IF a.t \in {"nan", "inf"} THEN a ELSE Normal(a.n, a.d * k)

\* value.toString() of a number; a finite non-integer is outside what the
\* model prints (no specification puts one into an arithmetic formula)
NumberToString(v) ==
  IF v.t = "nan" THEN <<"N","a","N">>
  ELSE IF v.t = "inf" THEN
    (IF v.n < 0 THEN <<"-">> ELSE <<>>) \o <<"I","n","f","i","n","i","t","y">>
  ELSE IntToText(v.n)

\* ------------------------------------------------------------------------
\* Coordinate codec and cell lookup
\* ------------------------------------------------------------------------
RECURSIVE MutLetterAccPlainBase26(_, _)
MutLetterAccPlainBase26(letter, result) ==
  IF letter = <<>> THEN result + 1
  ELSE MutLetterAccPlainBase26(Tail(letter), result * 26 + LetterOrd(Head(letter)))
RECURSIVE LetterAcc(_, _)
LetterAcc(letter, result) ==
  IF letter = <<>> THEN result
  ELSE LetterAcc(Tail(letter), result * 26 + (LetterOrd(Head(letter)) + 1))
columnLetterToIndex(letter) == LetterAcc(letter, 0) - 1

\* cellRef.match(/^([A-Z]+)(\d+)$/)
MatchesCellRef(t) ==
  LET u == UpperRun(t) IN
    /\ u > 0
    /\ DigitRun(SubSeq(t, u + 1, Len(t))) = Len(t) - u
    /\ Len(t) > u
RefLetters(t) == SubSeq(t, 1, UpperRun(t))
RefRowNum(t) == ParseInt(SubSeq(t, UpperRun(t) + 1, Len(t)))

\* getCellValue over the row matrix g (by value) and the column list cols
MutGetCellValueOutsideNaN(cellRef, g, cols) ==
  IF ~MatchesCellRef(cellRef) THEN Num(0)
  ELSE
    LET colIndex == columnLetterToIndex(RefLetters(cellRef))
        rowNum == RefRowNum(cellRef)
        rowIndex == rowNum - 2
    IN IF rowNum = 1
       THEN (IF colIndex < Len(cols) THEN Str(cols[colIndex + 1].name) ELSE EmptyString)
       ELSE IF /\ rowIndex >= 0 /\ rowIndex < Len(g)
               /\ colIndex >= 0 /\ colIndex < Len(g[rowIndex + 1])
            THEN LET v == g[rowIndex + 1][colIndex + 1].value
                 IN IF Falsy(v) THEN Num(0) ELSE v
            ELSE NaN
getCellValue(cellRef, g, cols) ==
  IF ~MatchesCellRef(cellRef) THEN Num(0)
  ELSE
    LET colIndex == columnLetterToIndex(RefLetters(cellRef))
        rowNum == RefRowNum(cellRef)
        rowIndex == rowNum - 2
    IN IF rowNum = 1
       THEN (IF colIndex < Len(cols) THEN Str(cols[colIndex + 1].name) ELSE EmptyString)
       ELSE IF /\ rowIndex >= 0 /\ rowIndex < Len(g)
               /\ colIndex >= 0 /\ colIndex < Len(g[rowIndex + 1])
            THEN LET v == g[rowIndex + 1][colIndex + 1].value
                 IN IF Falsy(v) THEN Num(0) ELSE v
            ELSE Num(0)

\* String.fromCharCode(65 + i): a letter of A-Z only for i < 26; the
\* characters after Z are [ backslash ] ^ _ backtick and the lower-case letters, and
\* no character of a higher code is in A-Z either
CharsAfterZ == <<"[", "backslash", "]", "^", "_", "backtick">>
fromCharCode65(i) ==
  IF i < 26 THEN UpperLetters[i + 1]
  ELSE IF i < 32 THEN CharsAfterZ[i - 25]
  ELSE IF i < 58 THEN LowerLetters[i - 31]
  ELSE "{"

RECURSIVE RangeCells(_, _, _, _, _, _, _)
RangeCells(rowNum, colIndex, minCol, maxCol, maxRow, g, cols) ==
  IF rowNum > maxRow THEN <<>>
  ELSE [k \in 1..(maxCol - colIndex + 1) |->
          getCellValue(<<fromCharCode65(colIndex + k - 1)>> \o NatToText(rowNum), g, cols)]
       \o RangeCells(rowNum + 1, minCol, minCol, maxCol, maxRow, g, cols)

getCellsInRange(range, g, cols) ==
  IF ~Includes(range, ":") THEN <<getCellValue(range, g, cols)>>
  ELSE
    LET parts == Split(range, ":")
        startCell == parts[1]
        endCell == parts[2]
    IN IF endCell = <<>> THEN <<>>
       ELSE IF ~MatchesCellRef(startCell) \/ ~MatchesCellRef(endCell) THEN <<>>
       ELSE
         LET startColIndex == columnLetterToIndex(RefLetters(startCell))
             startRowNum == RefRowNum(startCell)
             endColIndex == columnLetterToIndex(RefLetters(endCell))
             endRowNum == RefRowNum(endCell)
             minCol == Min2(startColIndex, endColIndex)
             maxCol == Max2(startColIndex, endColIndex)
             minRow == Min2(startRowNum, endRowNum)
             maxRow == Max2(startRowNum, endRowNum)
         IN RangeCells(minRow, minCol, minCol, maxCol, maxRow, g, cols)

\* ------------------------------------------------------------------------
\* eval() on the arithmetic fragment: decimal integer literals, unary and
\* binary + and -, binary *, spaces.  The component is an ES module, so the
\* evaluated code is strict: a literal with a leading zero is a SyntaxError,
\* as are the tokens ++ and -- applied to a literal.
\* ------------------------------------------------------------------------
FragmentChars == Range(DigitChars) \cup {"+", "-", "*", " "}
InFragment(e) ==
  /\ Range(e) \subseteq FragmentChars
  /\ \A i \in 1..(Len(e) - 1) : ~(e[i] = "*" /\ e[i + 1] = "*")

Tok(k, v) == [k |-> k, v |-> v]
RECURSIVE Tokenize(_)
Tokenize(t) ==
  IF t = <<>> THEN <<>>
  ELSE IF Head(t) = " " THEN Tokenize(Tail(t))
  ELSE IF IsDigit(Head(t)) THEN
    LET k == DigitRun(t)
        lit == SubSeq(t, 1, k)
    IN <<IF k > 1 /\ lit[1] = "0" THEN Tok("bad", 0) ELSE Tok("num", ParseInt(lit))>>
       \o Tokenize(SubSeq(t, k + 1, Len(t)))
  ELSE IF Len(t) >= 2 /\ Head(t) \in {"+", "-"} /\ t[2] = Head(t)
       THEN <<Tok("incdec", 0)>> \o Tokenize(SubSeq(t, 3, Len(t)))
  ELSE <<Tok(Head(t), 0)>> \o Tokenize(Tail(t))

Parsed(ok, v, rest) == [ok |-> ok, v |-> v, rest |-> rest]
ParseFail == Parsed(FALSE, 0, <<>>)
RECURSIVE ParseUnary(_)
ParseUnary(toks) ==
  IF toks = <<>> THEN ParseFail
  ELSE IF Head(toks).k = "num" THEN Parsed(TRUE, Head(toks).v, Tail(toks))
  ELSE IF Head(toks).k \in {"+", "-"} THEN
    LET r == ParseUnary(Tail(toks))
    IN IF ~r.ok THEN ParseFail
       ELSE Parsed(TRUE, IF Head(toks).k = "-" THEN -r.v ELSE r.v, r.rest)
  ELSE ParseFail
RECURSIVE ParseTermTail(_, _)
ParseTermTail(acc, toks) ==
  IF toks # <<>> /\ Head(toks).k = "*" THEN
    LET r == ParseUnary(Tail(toks))
    IN IF ~r.ok THEN ParseFail ELSE ParseTermTail(acc * r.v, r.rest)
  ELSE Parsed(TRUE, acc, toks)
ParseTerm(toks) ==
  LET r == ParseUnary(toks) IN IF ~r.ok THEN ParseFail ELSE ParseTermTail(r.v, r.rest)
RECURSIVE ParseExprTail(_, _)
ParseExprTail(acc, toks) ==
  IF toks # <<>> /\ Head(toks).k \in {"+", "-"} THEN
    LET r == ParseTerm(Tail(toks))
    IN IF ~r.ok THEN ParseFail
       ELSE ParseExprTail(IF Head(toks).k = "+" THEN acc + r.v ELSE acc - r.v, r.rest)
  ELSE Parsed(TRUE, acc, toks)
ParseExpr(toks) ==
  LET r == ParseTerm(toks) IN IF ~r.ok THEN ParseFail ELSE ParseExprTail(r.v, r.rest)

\* eval(expression) throws a SyntaxError
EvalRaises(expression) ==
  LET toks == Tokenize(expression)
      r == ParseExpr(toks)
  IN InFragment(expression) /\ toks # <<>> /\ ~(r.ok /\ r.rest = <<>>)
\* an exception on its way to the caller
Thrown == [t |-> "throw", n |-> 0, d |-> 1, s |-> <<>>]
\* try { return v } catch { return '#ERROR!' }
MutTryCatch(v) == v
TryCatch(v) == IF v = Thrown THEN ErrorMarker ELSE v
\* try { return eval(expression) || 0 } catch { return '#ERROR!' }
JsEvalOrZero(expression) ==
  IF ~InFragment(expression) THEN JsVal(expression)
  ELSE IF Tokenize(expression) = <<>> THEN Num(0)
  ELSE IF EvalRaises(expression) THEN TryCatch(Thrown)
  ELSE Num(ParseExpr(Tokenize(expression)).v)

\* ------------------------------------------------------------------------
\* evaluateFormula
\* ------------------------------------------------------------------------
\* /^[A-Z0-9+\-*/.\s]+$/.test(t)
ArithmeticChar(c) == IsUpper(c) \/ IsDigit(c) \/ c \in {"+", "-", "*", "/", "."} \/ IsSpace(c)
LooksArithmetic(t) == t # <<>> /\ \A i \in DOMAIN t : ArithmeticChar(t[i])
\* /^[0-9+\-*/.() ]+$/.test(t)
SafeChar(c) == IsDigit(c) \/ c \in {"+", "-", "*", "/", ".", "(", ")", " "}
MutSafeExpression(t) == TRUE
SafeExpression(t) == t # <<>> /\ \A i \in DOMAIN t : SafeChar(t[i])

\* upperFormula.replace(/([A-Z]+\d+)/g, ref => number text of the cell or '0')
RECURSIVE ReplaceRefs(_, _, _)
ReplaceRefs(t, g, cols) ==
  IF t = <<>> THEN <<>>
  ELSE
    LET u == UpperRun(t)
        k == DigitRun(SubSeq(t, u + 1, Len(t)))
    IN IF u = 0 THEN <<Head(t)>> \o ReplaceRefs(Tail(t), g, cols)
       ELSE IF k = 0 THEN SubSeq(t, 1, u) \o ReplaceRefs(SubSeq(t, u + 1, Len(t)), g, cols)
       ELSE
         LET value == getCellValue(SubSeq(t, 1, u + k), g, cols)
         IN (IF TypeofNumber(value) THEN NumberToString(value) ELSE <<"0">>)
            \o ReplaceRefs(SubSeq(t, u + k + 1, Len(t)), g, cols)

\* the values of all comma-separated arguments, each trimmed and expanded
RECURSIVE ArgValues(_, _, _)
ArgValues(args, g, cols) ==
  IF args = <<>> THEN <<>>
  ELSE getCellsInRange(Trim(Head(args)), g, cols) \o ArgValues(Tail(args), g, cols)
MutFunctionArgsFirstOnly(upperFormula, nameLen, g, cols) ==
  ArgValues(<<Head(Split(SliceDropLast(upperFormula, nameLen), ","))>>, g, cols)
FunctionArgs(upperFormula, nameLen, g, cols) ==
  ArgValues(Split(SliceDropLast(upperFormula, nameLen), ","), g, cols)

RECURSIVE NumericOnly(_)
NumericOnly(vals) ==
  IF vals = <<>> THEN <<>>
  ELSE (IF TypeofNumber(Head(vals)) THEN <<Head(vals)>> ELSE <<>>) \o NumericOnly(Tail(vals))
RECURSIVE SumOf(_)
SumOf(nums) == IF nums = <<>> THEN Num(0) ELSE NumAdd(Head(nums), SumOf(Tail(nums)))
\* Math.max(acc, ...nums) and Math.min(acc, ...nums); NaN is contagious
RECURSIVE MaxOf(_, _)
MaxOf(acc, nums) ==
  IF nums = <<>> THEN acc
  ELSE IF acc.t = "nan" \/ Head(nums).t = "nan" THEN NaN
  ELSE MaxOf(IF NumCmp(Head(nums), acc) > 0 THEN Head(nums) ELSE acc, Tail(nums))
RECURSIVE MinOf(_, _)
MinOf(acc, nums) ==
  IF nums = <<>> THEN acc
  ELSE IF acc.t = "nan" \/ Head(nums).t = "nan" THEN NaN
  ELSE MinOf(IF NumCmp(Head(nums), acc) < 0 THEN Head(nums) ELSE acc, Tail(nums))

TextSUM == <<"S","U","M","(">>
TextAVERAGE == <<"A","V","E","R","A","G","E","(">>
TextCOUNT == <<"C","O","U","N","T","(">>
TextMAX == <<"M","A","X","(">>
TextMIN == <<"M","I","N","(">>

\* The evaluation together with what the arithmetic branch did:
\* arithmetic = the branch was entered, expression = the text after the
\* substitution of the references, evaluated = eval(expression) was called.
Outcome(result, arithmetic, expression, evaluated) ==
  [result |-> result, arithmetic |-> arithmetic,
   expression |-> expression, evaluated |-> evaluated]
evaluateFormulaOutcome(formula, g, cols) ==
  LET upperFormula == Trim(ToUpperCase(formula)) IN
  IF ~Includes(upperFormula, "(") /\ LooksArithmetic(upperFormula) THEN
    LET expression == ReplaceRefs(upperFormula, g, cols)
    IN IF ~SafeExpression(expression)
       THEN Outcome(ErrorMarker, TRUE, expression, FALSE)
       ELSE Outcome(JsEvalOrZero(expression), TRUE, expression, TRUE)
  ELSE IF StartsWith(upperFormula, TextSUM) THEN
    Outcome(SumOf(NumericOnly(FunctionArgs(upperFormula, 4, g, cols))), FALSE, <<>>, FALSE)
  ELSE IF StartsWith(upperFormula, TextAVERAGE) THEN
    LET nums == NumericOnly(FunctionArgs(upperFormula, 8, g, cols))
    IN Outcome(IF Len(nums) > 0 THEN NumDivInt(SumOf(nums), Len(nums)) ELSE Num(0),
               FALSE, <<>>, FALSE)
  ELSE IF StartsWith(upperFormula, TextCOUNT) THEN
    Outcome(Num(Len(NumericOnly(FunctionArgs(upperFormula, 6, g, cols)))), FALSE, <<>>, FALSE)
  ELSE IF StartsWith(upperFormula, TextMAX) THEN
    LET max == MaxOf(Infinity(-1), NumericOnly(FunctionArgs(upperFormula, 4, g, cols)))
    IN Outcome(IF max = Infinity(-1) THEN Num(0) ELSE max, FALSE, <<>>, FALSE)
  ELSE IF StartsWith(upperFormula, TextMIN) THEN
    LET min == MinOf(Infinity(1), NumericOnly(FunctionArgs(upperFormula, 4, g, cols)))
    IN Outcome(IF min = Infinity(1) THEN Num(0) ELSE min, FALSE, <<>>, FALSE)
  ELSE IF MatchesCellRef(upperFormula) THEN
    Outcome(getCellValue(upperFormula, g, cols), FALSE, <<>>, FALSE)
  ELSE Outcome(ErrorMarker, FALSE, <<>>, FALSE)
evaluateFormula(formula, g, cols) == evaluateFormulaOutcome(formula, g, cols).result

\* ------------------------------------------------------------------------
\* State
\* ------------------------------------------------------------------------
VARIABLES
  heap,            \* row object id -> row array (sequence of cells)
  gridData,        \* useState gridData: sequence of row object ids
  columns,         \* data.columns held by the host page
  columnWidths,    \* useState columnWidths
  rowHeights,      \* useState rowHeights
  history,         \* useState history: entries [gridData: row ids, columns]
  historyIndex,    \* useState historyIndex (0-based cursor, -1 before mount)
  selectedCell,    \* useState selectedCell (NoCell for null)
  selectedCells,   \* useState selectedCells: set of <<row, col>>
  editingCell,     \* useState editingCell (NoCell for null)
  sortColumn,      \* useState sortColumn (-1 for null)
  sortDirection,   \* useState sortDirection
  calls,           \* host callbacks invoked by the last handler, in order
  used,            \* saveToHistory calls and typed changes so far (bounded by
                   \* MaxRecords and MaxEdits)
  editStart,       \* the live row matrix and cell when the current edit began
  totalRows,       \* filteredData.length
  scrollTop,       \* useState scrollTop
  containerHeight, \* useState containerHeight
  fInput,          \* formula text given to evaluateFormula
  fOutcome,        \* what evaluateFormula did with it
  fTokens,         \* the tokens an arithmetic formula text was typed as
  fCall,           \* the function and the arguments a call text was built from
  cIndex,          \* a column index given to getColumnLetter
  cLetter,         \* the letters getColumnLetter returned for it
  cBack,           \* the index columnLetterToIndex returned for the letters
  cPos,            \* a position given to getCellReference
  cRef,            \* the reference text getCellReference returned for it
  cParsed,         \* the position the reference text parses back to
  rStart,          \* the reference before the colon of a range text
  rEnd,            \* the reference after the colon of a range text
  rValues,         \* what getCellsInRange returned for the range text
  selectedRange,   \* useState selectedRange (NoRange for null)
  isDragging,      \* useState isDragging
  dragStart,       \* useState dragStart (NoCell for null)
  mouseUpClosure,  \* the state the registered document mouseup listener reads
  draggedColumn,   \* useState draggedColumn (NullIndex for null)
  dragOverColumn,  \* useState dragOverColumn
  draggedRow,      \* useState draggedRow
  dragOverRow,     \* useState dragOverRow
  filterText,      \* useState filterText
  debouncedFilterText, \* useState debouncedFilterText
  filterTimers,    \* the pending debounce timeouts, each with the text it applies
  keystrokes       \* filter keystrokes so far (bounded by MaxKeystrokes)

gridVars == <<heap, gridData, columns, columnWidths, rowHeights, history, historyIndex,
              selectedCell, selectedCells, editingCell, sortColumn, sortDirection,
              calls, used, editStart>>
viewVars == <<totalRows, scrollTop, containerHeight>>
formulaVars == <<fInput, fOutcome, fTokens, fCall>>
codecVars == <<cIndex, cLetter, cBack, cPos, cRef, cParsed>>
rangeVars == <<rStart, rEnd, rValues>>
selectVars == <<selectedRange, isDragging, dragStart, mouseUpClosure>>
dragVars == <<draggedColumn, dragOverColumn, draggedRow, dragOverRow>>
filterVars == <<filterText, debouncedFilterText, filterTimers, keystrokes>>
uiVars == <<selectVars, dragVars, filterVars>>
vars == <<gridVars, viewVars, formulaVars, codecVars, rangeVars, uiVars>>

Pos(r, c) == [row |-> r, col |-> c]
NoCell == Pos(-2, -2)
\* null for a range, and for an index where -1 is the header row
NoRange == [start |-> NoCell, end |-> NoCell]
NullIndex == NoCell.row

\* the row matrix (by value) that the array g of row ids denotes in heap h
View(h, g) == [i \in 1..Len(g) |-> h[g[i]]]
LiveGrid == View(heap, gridData)
HistoryGrid(i) == View(heap, history[i + 1].gridData)

\* Unreachable row objects are dropped and the reachable ones renumbered in
\* order of first reference (live rows, then the history entries); which
\* arrays share a row object is preserved.
RECURSIVE Uniq(_, _)
Uniq(ids, seen) ==
  IF ids = <<>> THEN <<>>
  ELSE IF Head(ids) \in seen THEN Uniq(Tail(ids), seen)
  ELSE <<Head(ids)>> \o Uniq(Tail(ids), seen \cup {Head(ids)})
RECURSIVE HistoryIds(_)
HistoryIds(hist) ==
  IF hist = <<>> THEN <<>> ELSE Head(hist).gridData \o HistoryIds(Tail(hist))
Collect(h, g, hist) ==
  LET live == Uniq(g \o HistoryIds(hist), {})
      newId(id) == CHOOSE k \in 1..Len(live) : live[k] = id
  IN [heap |-> [k \in 1..Len(live) |-> h[live[k]]],
      gridData |-> [i \in 1..Len(g) |-> newId(g[i])],
      history |-> [e \in 1..Len(hist) |->
                    [gridData |-> [i \in 1..Len(hist[e].gridData) |-> newId(hist[e].gridData[i])],
                     columns |-> hist[e].columns]]]

\* JSON.parse(JSON.stringify(g)) for an array g of row objects: fresh row
\* objects holding the JSON image of the cells
DeepCopyHeap(h, g) == h \o JsonGrid(View(h, g))
DeepCopyIds(h, g) == [i \in 1..Len(g) |-> Len(h) + i]
\* JSON.parse(JSON.stringify(data.columns))
JsonColumns(cols) == [i \in 1..Len(cols) |-> [name |-> cols[i].name, key |-> cols[i].key]]

\* ------------------------------------------------------------------------
\* History: saveToHistory, undo, redo as functions of the render's state
\* ------------------------------------------------------------------------
HistoryResult(h, hist, idx) == [heap |-> h, history |-> hist, historyIndex |-> idx]

MutSaveSharingRows(h, g, cols, hist, idx) ==
  LET newHistory == Append(SubSeq(hist, 1, idx + 1),
                           [gridData |-> g, columns |-> JsonColumns(cols)])
  IN HistoryResult(h, newHistory, Len(newHistory) - 1)
MutSaveNoTruncate(h, g, cols, hist, idx) ==
  LET newHistory == Append(hist, [gridData |-> DeepCopyIds(h, g),
                                  columns |-> JsonColumns(cols)])
  IN HistoryResult(DeepCopyHeap(h, g), newHistory, Len(newHistory) - 1)
\* g and cols are gridData and data.columns of the render that created the
\* callback; h is the heap at the moment of the call
saveToHistory(h, g, cols, hist, idx) ==
  LET newHistory == Append(SubSeq(hist, 1, idx + 1),
                           [gridData |-> DeepCopyIds(h, g),
                            columns |-> JsonColumns(cols)])
  IN HistoryResult(DeepCopyHeap(h, g), newHistory, Len(newHistory) - 1)

\* ------------------------------------------------------------------------
\* Host page callbacks (page.tsx), applied to the host's column list
\* ------------------------------------------------------------------------
\* one callback invocation: onHeaderChange(index, text),
\* onInsertColumn(index, cols[1]), onAddColumns(cols),
\* onReorderColumns(index, target)
Call(name, index, text, target, cols) ==
  [name |-> name, index |-> index, text |-> text, target |-> target, cols |-> cols]
HeaderCall(index, newName) == Call("onHeaderChange", index, newName, 0, <<>>)

handleHeaderChange(cols, columnIndex, newName) ==
  IF columnIndex < Len(cols)
  THEN [cols EXCEPT ![columnIndex + 1] = [name |-> newName, key |-> @.key]]
  ELSE cols
handleInsertColumn(cols, index, column) ==
  SubSeq(cols, 1, index) \o <<column>> \o SubSeq(cols, index + 1, Len(cols))
handleAddColumns(cols, newColumns) == cols \o newColumns
\* splice(sourceIndex, 1) then splice(targetIndex, 0, x) on a copy
MoveItem(s, sourceIndex, targetIndex) ==
  LET x == s[sourceIndex + 1]
      rest == SubSeq(s, 1, sourceIndex) \o SubSeq(s, sourceIndex + 2, Len(s))
      t == Min2(targetIndex, Len(rest))
  IN SubSeq(rest, 1, t) \o <<x>> \o SubSeq(rest, t + 1, Len(rest))
handleReorderColumns(cols, sourceIndex, targetIndex) == MoveItem(cols, sourceIndex, targetIndex)

\* the onHeaderChange calls that undo and redo make for a snapshot's columns
RECURSIVE HeaderRestoreCalls(_, _, _)
HeaderRestoreCalls(snapCols, cols, index) ==
  IF index >= Len(snapCols) THEN <<>>
  ELSE (IF index >= Len(cols) \/ snapCols[index + 1].name # cols[index + 1].name
        THEN <<HeaderCall(index, snapCols[index + 1].name)>>
        ELSE <<>>)
       \o HeaderRestoreCalls(snapCols, cols, index + 1)
RECURSIVE ApplyHeaderCalls(_, _)
ApplyHeaderCalls(cols, cs) ==
  IF cs = <<>> THEN cols
  ELSE ApplyHeaderCalls(handleHeaderChange(cols, Head(cs).index, Head(cs).text), Tail(cs))

\* ------------------------------------------------------------------------
\* Initial data (the host's dataset) and sets of inputs
\* ------------------------------------------------------------------------
\* columns of the dataset: a label column and one numeric column
InitColumns == << [name |-> <<"P">>, key |-> <<"p">>],
                  [name |-> <<"Q">>, key |-> <<"q">>] >>
\* the datasets the host may supply: items as rows of values per column
InitItems == { << <<Str(<<"b">>), Num(2)>>, <<Str(<<"a">>), Num(1)>> >> }
\* texts a user types into the cell input
EditTexts == { <<"x">>, <<"=","B","2">> }
\* printable keys pressed on a selected cell
KeyChars == { "5" }
\* column names typed into a header input
HeaderTexts == { <<"N">> }

Rows == Len(gridData)
Cols == Len(columns)
RowLen(r) == Len(heap[gridData[r + 1]])
CellAt(r, c) == heap[gridData[r + 1]][c + 1]
\* the cell (r, c) is rendered as a data cell of the table
HasCell(r, c) == r >= 0 /\ r < Rows /\ c >= 0 /\ c < RowLen(r)
\* the positions the table renders: header cells and data cells
Rendered(r, c) == (r = -1 /\ c >= 0 /\ c < Cols) \/ HasCell(r, c)

\* updated[row][col] = cell, written into the row object itself
WriteCell(h, g, r, c, cell) == [h EXCEPT ![g[r + 1]][c + 1] = cell]

\* isNumericColumn(colIndex) over the row matrix m
isNumericColumn(m, colIndex) ==
  /\ colIndex # 0
  /\ \A i \in 1..Len(m) :
       /\ colIndex < Len(m[i])
       /\ \/ m[i][colIndex + 1].value = EmptyString
          \/ TypeofNumber(m[i][colIndex + 1].value)
\* isValidNumericInput(value): '', '-', or /^-?\d*\.?\d*$/
isValidNumericInput(value) ==
  LET a == IF value # <<>> /\ Head(value) = "-" THEN Tail(value) ELSE value
      k == DigitRun(a)
      b == SubSeq(a, k + 1, Len(a))
      c == IF b # <<>> /\ Head(b) = "." THEN Tail(b) ELSE b
  IN DigitRun(c) = Len(c)
\* Number(value) for a text that isValidNumericInput accepts and that has no
\* fraction digits; a text without any digit is NaN
NumberOf(value) ==
  LET neg == value # <<>> /\ Head(value) = "-"
      a == IF neg THEN Tail(value) ELSE value
      k == DigitRun(a)
  IN IF k = 0 THEN NaN
     ELSE Num(IF neg THEN -ParseInt(SubSeq(a, 1, k)) ELSE ParseInt(SubSeq(a, 1, k)))

\* bookkeeping shared by the handlers
RecordingOps == {"record", "commit", "commitHeader"}
\* the bounds: a handler that calls saveToHistory, or that types, can still run
CanRecord == used.records < MaxRecords
CanType == used.edits < MaxEdits
\* the budget a handler of kind op draws on
Did(op) ==
  /\ op \in RecordingOps => CanRecord
  /\ op = "type" => CanType
  /\ used' = IF op \in RecordingOps THEN [used EXCEPT !.records = @ + 1]
             ELSE IF op = "type" THEN [used EXCEPT !.edits = @ + 1]
             ELSE used
\* the next state's row store: h, g, hist after dropping unreachable rows
Store(h, g, hist) ==
  LET c == Collect(h, g, hist)
  IN heap' = c.heap /\ gridData' = c.gridData /\ history' = c.history
Mounted == history # <<>>

\* ------------------------------------------------------------------------
\* Sorting: the comparator of handleSort and Array.prototype.sort
\* ------------------------------------------------------------------------
\* the model's characters in ascending order of their UTF-16 code
CodeOrder == <<" ", "!", "#", "(", ")", "*", "+", ",", "-", ".", "/">> \o DigitChars
             \o <<":", ";", "=">> \o UpperLetters \o <<"[", "]", "^", "_">>
             \o LowerLetters \o <<"{">>
CharCode(c) == IndexIn(CodeOrder, c)
RECURSIVE TextLess(_, _)
TextLess(a, b) ==
  IF b = <<>> THEN FALSE
  ELSE IF a = <<>> THEN TRUE
  ELSE IF Head(a) = Head(b) THEN TextLess(Tail(a), Tail(b))
  ELSE CharCode(Head(a)) < CharCode(Head(b))
\* String(v)
ToText(v) ==
  IF v.t = "str" THEN v.s
  ELSE IF v.t = "null" THEN <<"n","u","l","l">>
  ELSE NumberToString(v)
\* the comparator's result for two cell values: negative, zero or positive
\* (a NaN difference counts as zero for the sort)
CompareValues(aVal, bVal, direction) ==
  IF TypeofNumber(aVal) /\ TypeofNumber(bVal) THEN
    (IF aVal.t = "nan" \/ bVal.t = "nan" THEN 0
     ELSE IF direction = "asc" THEN NumCmp(aVal, bVal) ELSE NumCmp(bVal, aVal))
  ELSE
    LET aStr == ToLowerCase(ToText(aVal))
        bStr == ToLowerCase(ToText(bVal))
    IN IF direction = "asc"
       THEN (IF TextLess(aStr, bStr) THEN -1 ELSE IF TextLess(bStr, aStr) THEN 1 ELSE 0)
       ELSE (IF TextLess(bStr, aStr) THEN -1 ELSE IF TextLess(aStr, bStr) THEN 1 ELSE 0)

\* stable binary insertion sort of row ids by the comparator on column
\* colIndex (what the engine's sort does for arrays this short)
RECURSIVE InsertAt(_, _, _, _, _, _, _)
InsertAt(h, sorted, pivot, left, right, colIndex, direction) ==
  IF left >= right THEN left
  ELSE LET mid == left + ((right - left) \div 2)
           order == CompareValues(h[pivot][colIndex + 1].value,
                                  h[sorted[mid + 1]][colIndex + 1].value, direction)
       IN IF order < 0 THEN InsertAt(h, sorted, pivot, left, mid, colIndex, direction)
          ELSE InsertAt(h, sorted, pivot, mid + 1, right, colIndex, direction)
RECURSIVE SortAcc(_, _, _, _, _)
SortAcc(h, sorted, rest, colIndex, direction) ==
  IF rest = <<>> THEN sorted
  ELSE LET at == InsertAt(h, sorted, Head(rest), 0, Len(sorted), colIndex, direction)
       IN SortAcc(h, SubSeq(sorted, 1, at) \o <<Head(rest)>> \o SubSeq(sorted, at + 1, Len(sorted)),
                  Tail(rest), colIndex, direction)
SortRows(h, g, colIndex, direction) == SortAcc(h, <<>>, g, colIndex, direction)

\* ------------------------------------------------------------------------
\* Handlers of the component (specification Spec)
\* ------------------------------------------------------------------------
NoEdit == [grid |-> <<>>, row |-> -2, col |-> -2]
\* the cell input is on screen: a cell is being edited and is rendered
InputShown == editingCell # NoCell /\ Rendered(editingCell.row, editingCell.col)

\* useEffect "Initialize history with initial state"
MountEffect ==
  /\ history = <<>>
  /\ Store(DeepCopyHeap(heap, gridData), gridData,
           << [gridData |-> DeepCopyIds(heap, gridData), columns |-> JsonColumns(columns)] >>)
  /\ historyIndex' = 0
  /\ calls' = <<>>
  /\ Did("mount")
  /\ UNCHANGED <<columns, columnWidths, rowHeights, selectedCell, selectedCells, editingCell,
                 sortColumn, sortDirection, editStart>>

\* handleCellClick without modifier keys that adds the cell to the selection
MutCellClickKeepsSelection(row, col) ==
  /\ Mounted
  /\ Rendered(row, col)
  /\ selectedCell' = Pos(row, col)
  /\ selectedCells' = selectedCells \cup {<<row, col>>}
  /\ editingCell' = NoCell
  /\ calls' = <<>>
  /\ Did("select")
  /\ editStart' = NoEdit
  /\ UNCHANGED <<heap, gridData, columns, columnWidths, rowHeights, history, historyIndex,
                 sortColumn, sortDirection>>
\* handleCellClick without modifier keys; a mouse-down on a cell keeps the
\* focus where it is, so a shown input is removed without a blur
handleCellClick(row, col) ==
  /\ Mounted
  /\ Rendered(row, col)
  /\ selectedCell' = Pos(row, col)
  /\ selectedCells' = {<<row, col>>}
  /\ editingCell' = NoCell
  /\ calls' = <<>>
  /\ Did("select")
  /\ editStart' = NoEdit
  /\ UNCHANGED <<heap, gridData, columns, columnWidths, rowHeights, history, historyIndex,
                 sortColumn, sortDirection>>

handleRowHeaderClick(row) ==
  /\ Mounted /\ ~InputShown
  /\ row >= 0 /\ row < Rows
  /\ selectedCells' = { <<row, c>> : c \in 0..(Cols - 1) }
  /\ selectedCell' = Pos(row, 0)
  /\ editingCell' = NoCell
  /\ calls' = <<>>
  /\ Did("select")
  /\ editStart' = NoEdit
  /\ UNCHANGED <<heap, gridData, columns, columnWidths, rowHeights, history, historyIndex,
                 sortColumn, sortDirection>>

handleColumnHeaderClick(col) ==
  /\ Mounted /\ ~InputShown
  /\ col >= 0 /\ col < Cols
  /\ selectedCells' = { <<r, col>> : r \in (-1)..(Rows - 1) }
  /\ selectedCell' = Pos(-1, col)
  /\ editingCell' = NoCell
  /\ calls' = <<>>
  /\ Did("select")
  /\ editStart' = NoEdit
  /\ UNCHANGED <<heap, gridData, columns, columnWidths, rowHeights, history, historyIndex,
                 sortColumn, sortDirection>>

\* handleDoubleClick; the browser delivers the clicks on the cell first, so
\* the cell is the selected one
handleDoubleClick(row, col) ==
  /\ Mounted
  /\ Rendered(row, col)
  /\ selectedCell = Pos(row, col) /\ editingCell = NoCell
  /\ editingCell' = Pos(row, col)
  /\ editStart' = [grid |-> LiveGrid, row |-> row, col |-> col]
  /\ calls' = <<>>
  /\ Did("beginEdit")
  /\ UNCHANGED <<heap, gridData, columns, columnWidths, rowHeights, history, historyIndex,
                 selectedCell, selectedCells, sortColumn, sortDirection>>

\* handleKeyDown, Enter or F2 while not editing
KeyEnterOrF2 ==
  /\ Mounted
  /\ selectedCell # NoCell /\ editingCell = NoCell
  /\ Rendered(selectedCell.row, selectedCell.col)
  /\ editingCell' = selectedCell
  /\ editStart' = [grid |-> LiveGrid, row |-> selectedCell.row, col |-> selectedCell.col]
  /\ calls' = <<>>
  /\ Did("beginEdit")
  /\ UNCHANGED <<heap, gridData, columns, columnWidths, rowHeights, history, historyIndex,
                 selectedCell, selectedCells, sortColumn, sortDirection>>

AllowedNumericChars == {"0","1","2","3","4","5","6","7","8","9",".","-"}
\* handleKeyDown, default branch: a printable key starts an edit and, on a
\* data cell, replaces the cell's content by the key
KeyPrintable(key) ==
  LET row == selectedCell.row
      col == selectedCell.col
      isNumeric == col > 0 /\ isNumericColumn(LiveGrid, col)
      value == IF isNumeric /\ IsDigit(key) THEN Num(DigitVal(key)) ELSE Str(<<key>>)
  IN
  /\ Mounted
  /\ selectedCell # NoCell /\ editingCell = NoCell
  /\ Rendered(row, col)
  /\ calls' = <<>>
  /\ IF row # -1 /\ isNumeric /\ key \notin AllowedNumericChars
     THEN \* return before setEditingCell: the key is dropped
          UNCHANGED <<heap, gridData, history, editingCell, editStart, used>>
     ELSE /\ CanType
          /\ editingCell' = selectedCell
          /\ IF row # -1
             THEN Store(WriteCell(heap, gridData, row, col,
                                  [value |-> value, format |-> CellAt(row, col).format,
                                   formula |-> AbsentKey]),
                        gridData, history)
             ELSE UNCHANGED <<heap, gridData, history>>
          /\ editStart' = [grid |-> LiveGrid, row |-> row, col |-> col]
          /\ Did("type")
  /\ UNCHANGED <<columns, columnWidths, rowHeights, historyIndex,
                 selectedCell, selectedCells, sortColumn, sortDirection>>

\* the texts typed into the cell inputs of specification SpecEntry
EntryTexts == { <<"7">>, <<"1","e","5">>, <<"x">> }
\* the value an <input type="number"> reports: '' unless its text is a
\* floating-point number (digits, an optional fraction, an optional exponent)
IsDecimalText(t) ==
  /\ t # <<>> /\ IsDigit(t[Len(t)])
  /\ isValidNumericInput(t)
IsExponentText(t) ==
  LET a == IF t # <<>> /\ Head(t) \in {"+", "-"} THEN Tail(t) ELSE t
  IN a # <<>> /\ DigitRun(a) = Len(a)
NumberInputReports(value) ==
  LET parts == Split(ToLowerCase(value), "e")
  IN \/ value = <<>>
     \/ Len(parts) = 1 /\ IsDecimalText(parts[1])
     \/ Len(parts) = 2 /\ IsDecimalText(parts[1]) /\ IsExponentText(parts[2])
\* handleInputChange without the check of isValidNumericInput
MutInputChangeCellNoValidation(m, cols, row, col, value) ==
  LET numeric == isNumericColumn(m, col)
      old == m[row + 1][col + 1]
  IN IF value # <<>> /\ Head(value) = "="
     THEN [value |-> evaluateFormula(Tail(value), m, cols),
           format |-> old.format, formula |-> value]
     ELSE IF numeric
     THEN [value |-> IF value = <<>> THEN EmptyString ELSE NumberOf(value),
           format |-> old.format, formula |-> UndefinedValue]
     ELSE [value |-> Str(value), format |-> old.format, formula |-> UndefinedValue]
\* the cell that handleInputChange(e, row, col) leaves at the data cell
\* (row, col) of the row matrix m for e.target.value = value: the cell as it
\* was when the handler returns early
inputChangeCell(m, cols, row, col, value) ==
  LET numeric == isNumericColumn(m, col)
      old == m[row + 1][col + 1]
  IN IF numeric /\ ~isValidNumericInput(value) THEN old
     ELSE IF value # <<>> /\ Head(value) = "="
     THEN [value |-> evaluateFormula(Tail(value), m, cols),
           format |-> old.format, formula |-> value]
     ELSE IF numeric
     THEN [value |-> IF value = <<>> THEN EmptyString ELSE NumberOf(value),
           format |-> old.format, formula |-> UndefinedValue]
     ELSE [value |-> Str(value), format |-> old.format, formula |-> UndefinedValue]

\* handleInputChange(e, row, col) on the shown input with e.target.value = value
handleInputChange(value) ==
  LET row == editingCell.row
      col == editingCell.col
      numeric == isNumericColumn(LiveGrid, col)
      cell == inputChangeCell(LiveGrid, columns, row, col, value)
  IN
  /\ CanType /\ InputShown
  /\ IF row = -1
     THEN /\ value \in HeaderTexts
          /\ calls' = <<HeaderCall(col, value)>>
          /\ columns' = handleHeaderChange(columns, col, value)
          /\ UNCHANGED <<heap, gridData, history>>
     ELSE /\ value \in EditTexts \cup EntryTexts
          /\ numeric => NumberInputReports(value)
          /\ calls' = <<>>
          /\ columns' = columns
          /\ Store(WriteCell(heap, gridData, row, col, cell), gridData, history)
  /\ Did("type")
  /\ UNCHANGED <<columnWidths, rowHeights, historyIndex, selectedCell, selectedCells,
                 editingCell, sortColumn, sortDirection, editStart>>

\* handleKeyDown, Escape, with the element the event is dispatched on: the
\* handler returns at once for an event from an input; while editing it
\* only sets editingCell to null, otherwise it clears the selection
KeyEscape(target) ==
  /\ Mounted
  /\ calls' = <<>>
  /\ IF selectedCell = NoCell \/ target = "INPUT"
     THEN UNCHANGED <<editingCell, selectedCells, selectedRange>>
     ELSE IF editingCell # NoCell
     THEN editingCell' = NoCell /\ UNCHANGED <<selectedCells, selectedRange>>
     ELSE selectedCells' = {} /\ selectedRange' = NoRange /\ UNCHANGED editingCell
  /\ UNCHANGED <<heap, gridData, columns, columnWidths, rowHeights, history, historyIndex,
                 selectedCell, sortColumn, sortDirection, used, editStart>>
  /\ UNCHANGED <<isDragging, dragStart, mouseUpClosure>>

\* the next state's store and cursor after a handler that left the live
\* array g and called saveToHistory with result r
Recorded(g, r) == Store(r.heap, g, r.history) /\ historyIndex' = r.historyIndex

\* handleInputBlur: blur of the input, or Enter/Tab pressed in it
handleInputBlur ==
  /\ CanRecord /\ InputShown
  /\ editingCell' = NoCell
  /\ Recorded(gridData, saveToHistory(heap, gridData, columns, history, historyIndex))
  /\ calls' = <<>>
  /\ Did(IF editingCell.row = -1 THEN "commitHeader" ELSE "commit")
  /\ UNCHANGED <<columns, columnWidths, rowHeights, selectedCell, selectedCells,
                 sortColumn, sortDirection, editStart>>

\* undo and redo as functions of the render's state: whether the guard let
\* the handler act, the store and cursor it sets, the callbacks it invokes
Restore(acted, h, g, idx, cs) ==
  [acted |-> acted, heap |-> h, gridData |-> g, historyIndex |-> idx, calls |-> cs]
MutUndoOffByOne(h, g, cols, hist, idx) ==
  IF idx > 0
  THEN LET previousState == hist[idx + 1]
       IN Restore(TRUE, DeepCopyHeap(h, previousState.gridData),
                  DeepCopyIds(h, previousState.gridData), idx - 1,
                  HeaderRestoreCalls(previousState.columns, cols, 0))
  ELSE Restore(FALSE, h, g, idx, <<>>)
undo(h, g, cols, hist, idx) ==
  IF idx > 0
  THEN LET previousState == hist[idx]
       IN Restore(TRUE, DeepCopyHeap(h, previousState.gridData),
                  DeepCopyIds(h, previousState.gridData), idx - 1,
                  HeaderRestoreCalls(previousState.columns, cols, 0))
  ELSE Restore(FALSE, h, g, idx, <<>>)
redo(h, g, cols, hist, idx) ==
  IF idx < Len(hist) - 1
  THEN LET nextState == hist[idx + 2]
       IN Restore(TRUE, DeepCopyHeap(h, nextState.gridData),
                  DeepCopyIds(h, nextState.gridData), idx + 1,
                  HeaderRestoreCalls(nextState.columns, cols, 0))
  ELSE Restore(FALSE, h, g, idx, <<>>)

Restored(r) ==
  /\ Store(r.heap, r.gridData, history)
  /\ historyIndex' = r.historyIndex
  /\ calls' = r.calls
  /\ columns' = ApplyHeaderCalls(columns, r.calls)

\* the Undo button or Ctrl+Z (a click on the button first blurs a shown input)
Undo ==
  /\ Mounted /\ ~InputShown
  /\ Restored(undo(heap, gridData, columns, history, historyIndex))
  /\ Did("undo")
  /\ editStart' = NoEdit
  /\ UNCHANGED <<columnWidths, rowHeights, selectedCell, selectedCells, editingCell,
                 sortColumn, sortDirection>>

\* the Redo button or Ctrl+Y
Redo ==
  /\ Mounted /\ ~InputShown
  /\ Restored(redo(heap, gridData, columns, history, historyIndex))
  /\ Did("redo")
  /\ editStart' = NoEdit
  /\ UNCHANGED <<columnWidths, rowHeights, selectedCell, selectedCells, editingCell,
                 sortColumn, sortDirection>>

\* { ...cell.format, ...format } for format = { bold: !cell.format.bold }
ToggleBold(cell) ==
  [cell EXCEPT !.format.bold = IF @ = "true" THEN "false" ELSE "true"]
\* the in-place write of formatCell(row, col, { bold: !bold })
formatCell(h, g, row, col) == WriteCell(h, g, row, col, ToggleBold(h[g[row + 1]][col + 1]))

\* the bookkeeping of a handler that changed data and recorded it
RecordedChange ==
  /\ Did("record")
  /\ editStart' = NoEdit

\* handleKeyDown, Ctrl+B on the selected data cell
KeyCtrlB ==
  LET row == selectedCell.row
      col == selectedCell.col
      h1 == formatCell(heap, gridData, row, col)
  IN
  /\ CanRecord /\ Mounted /\ ~InputShown
  /\ selectedCell # NoCell /\ HasCell(row, col)
  /\ Recorded(gridData, saveToHistory(h1, gridData, columns, history, historyIndex))
  /\ calls' = <<>>
  /\ RecordedChange
  /\ UNCHANGED <<columns, columnWidths, rowHeights, selectedCell, selectedCells, editingCell,
                 sortColumn, sortDirection>>

\* the toolbar's B button: formatCell for every selected data cell that
\* exists; every call writes in place and calls saveToHistory of the same
\* render, the last setHistory wins
RECURSIVE FormatAll(_, _, _)
FormatAll(h, g, cells) ==
  IF cells = {} THEN h
  ELSE LET k == CHOOSE k \in cells : TRUE
       IN FormatAll(formatCell(h, g, k[1], k[2]), g, cells \ {k})
ToolbarBold ==
  LET targets == { k \in selectedCells : HasCell(k[1], k[2]) }
      h1 == FormatAll(heap, gridData, targets)
  IN
  /\ CanRecord /\ Mounted /\ ~InputShown
  /\ targets # {}
  /\ Recorded(gridData, saveToHistory(h1, gridData, columns, history, historyIndex))
  /\ calls' = <<>>
  /\ RecordedChange
  /\ UNCHANGED <<columns, columnWidths, rowHeights, selectedCell, selectedCells, editingCell,
                 sortColumn, sortDirection>>

\* handleKeyDown, Delete or Backspace on the selected data cell: clearCell
KeyDelete ==
  LET row == selectedCell.row
      col == selectedCell.col
      h1 == WriteCell(heap, gridData, row, col,
                      [value |-> EmptyString, format |-> CellAt(row, col).format,
                       formula |-> AbsentKey])
  IN
  /\ CanRecord /\ Mounted
  /\ selectedCell # NoCell /\ editingCell = NoCell /\ HasCell(row, col)
  /\ Recorded(gridData, saveToHistory(h1, gridData, columns, history, historyIndex))
  /\ calls' = <<>>
  /\ RecordedChange
  /\ UNCHANGED <<columns, columnWidths, rowHeights, selectedCell, selectedCells, editingCell,
                 sortColumn, sortDirection>>

\* a sort click that always sorts ascending
MutDirectionAlwaysAsc(column, direction, colIndex) == "asc"
\* const newDirection = sortColumn === colIndex && sortDirection === 'asc' ? 'desc' : 'asc'
directionAfterClick(column, direction, colIndex) ==
  IF column = colIndex /\ direction = "asc" THEN "desc" ELSE "asc"
\* handleSort(colIndex): the sort button of a column
handleSort(colIndex) ==
  LET newDirection == directionAfterClick(sortColumn, sortDirection, colIndex)
      throws == Rows >= 2 /\ \E r \in 0..(Rows - 1) : colIndex >= RowLen(r)
  IN
  /\ Mounted /\ ~InputShown
  /\ colIndex >= 0 /\ colIndex < Cols
  /\ sortColumn' = colIndex
  /\ sortDirection' = newDirection
  /\ calls' = <<>>
  /\ IF throws
     THEN \* a[colIndex] is undefined: the comparator throws before setGridData
          /\ Did("sortFailed")
          /\ UNCHANGED <<heap, gridData, history, historyIndex>>
     ELSE /\ CanRecord
          /\ Did("record")
          /\ Recorded(SortRows(heap, gridData, colIndex, newDirection),
                      saveToHistory(heap, gridData, columns, history, historyIndex))
  /\ editStart' = NoEdit
  /\ UNCHANGED <<columns, columnWidths, rowHeights, selectedCell, selectedCells, editingCell>>


\* s.splice(index, 0, x) on a copy of s
InsertInto(s, index, x) ==
  LET at == Min2(index, Len(s))
  IN SubSeq(s, 1, at) \o <<x>> \o SubSeq(s, at + 1, Len(s))
\* the two splices of a drop applied to the size list s, which may be shorter
\* than the grid: the removed item is then undefined
MoveSize(s, sourceIndex, targetIndex) ==
  IF sourceIndex < Len(s) THEN MoveItem(s, sourceIndex, targetIndex)
  ELSE InsertInto(s, targetIndex, UndefinedValue)
\* `col_${letter.toLowerCase()}_${Date.now()}`: the clock is read as the
\* number of columns so far, which grows with every insertion
InsertedColumn(insertIndex) ==
  [name |-> <<>>,
   key |-> <<"c", "o", "l", "_", ToLowerChar(fromCharCode65(insertIndex)), "_">>
           \o NatToText(Len(columns))]

\* the body shared by insertColumnLeft (insertIndex = colIndex) and
\* insertColumnRight (insertIndex = colIndex + 1); saveToHistory is the
\* render's callback and copies the render's gridData
InsertColumnAt(insertIndex) ==
  LET newColumn == InsertedColumn(insertIndex)
      r == saveToHistory(heap, gridData, columns, history, historyIndex)
      updated == [i \in 1..Rows |-> InsertInto(heap[gridData[i]], insertIndex, EmptyCell)]
  IN
  /\ CanRecord /\ Mounted /\ ~InputShown
  /\ Cols < MaxCols
  /\ calls' = <<Call("onInsertColumn", insertIndex, <<>>, 0, <<newColumn>>)>>
  /\ columns' = handleInsertColumn(columns, insertIndex, newColumn)
  /\ Recorded([i \in 1..Rows |-> Len(r.heap) + i], [r EXCEPT !.heap = r.heap \o updated])
  /\ columnWidths' = InsertInto(columnWidths, insertIndex, DefaultColumnWidth)
  /\ RecordedChange
  /\ UNCHANGED <<rowHeights, selectedCell, selectedCells, editingCell,
                 sortColumn, sortDirection>>
insertColumnLeft(colIndex) ==
  colIndex >= 0 /\ colIndex < Cols /\ InsertColumnAt(colIndex)
insertColumnRight(colIndex) ==
  colIndex >= 0 /\ colIndex < Cols /\ InsertColumnAt(colIndex + 1)

\* the new row pushed at the end, whatever the index
MutInsertRowAtEnd(insertIndex) ==
  LET newRow == [j \in 1..Cols |-> EmptyCell]
      r == saveToHistory(heap, gridData, columns, history, historyIndex)
  IN
  /\ CanRecord /\ Mounted /\ ~InputShown
  /\ Rows < MaxRows
  /\ calls' = <<>>
  /\ Recorded(Append(gridData, Len(r.heap) + 1),
              [r EXCEPT !.heap = Append(r.heap, newRow)])
  /\ rowHeights' = Append(rowHeights, DefaultRowHeight)
  /\ RecordedChange
  /\ UNCHANGED <<columns, columnWidths, selectedCell, selectedCells, editingCell,
                 sortColumn, sortDirection>>
\* the body shared by insertRowAbove and insertRowBelow
InsertRowAt(insertIndex) ==
  LET newRow == [j \in 1..Cols |-> EmptyCell]
      r == saveToHistory(heap, gridData, columns, history, historyIndex)
  IN
  /\ CanRecord /\ Mounted /\ ~InputShown
  /\ Rows < MaxRows
  /\ calls' = <<>>
  /\ Recorded(InsertInto(gridData, insertIndex, Len(r.heap) + 1),
              [r EXCEPT !.heap = Append(r.heap, newRow)])
  /\ rowHeights' = InsertInto(rowHeights, insertIndex, DefaultRowHeight)
  /\ RecordedChange
  /\ UNCHANGED <<columns, columnWidths, selectedCell, selectedCells, editingCell,
                 sortColumn, sortDirection>>
insertRowAbove(rowIndex) ==
  /\ rowIndex >= -1 /\ rowIndex < Rows
  /\ InsertRowAt(IF rowIndex = -1 THEN 0 ELSE rowIndex)
insertRowBelow(rowIndex) ==
  /\ rowIndex >= -1 /\ rowIndex < Rows
  /\ InsertRowAt(IF rowIndex = -1 THEN 0 ELSE rowIndex + 1)

\* the part of handleColumnDrop and handleRowDrop after the early returns:
\* a column header dragged from sourceIndex and dropped on targetIndex; rows
\* that lack the dragged column would receive an undefined cell, which the
\* table cannot render, so the gesture is taken only when every row has it
handleColumnDrop(sourceIndex, targetIndex) ==
  LET r == saveToHistory(heap, gridData, columns, history, historyIndex)
      newGridData == [i \in 1..Rows |-> MoveItem(heap[gridData[i]], sourceIndex, targetIndex)]
  IN
  /\ CanRecord /\ Mounted /\ ~InputShown
  /\ sourceIndex >= 0 /\ sourceIndex < Cols /\ targetIndex >= 0 /\ targetIndex < Cols
  /\ \A i \in 0..(Rows - 1) : sourceIndex < RowLen(i)
  /\ calls' = <<Call("onReorderColumns", sourceIndex, <<>>, targetIndex, <<>>)>>
  /\ columns' = handleReorderColumns(columns, sourceIndex, targetIndex)
  /\ Recorded([i \in 1..Rows |-> Len(r.heap) + i], [r EXCEPT !.heap = r.heap \o newGridData])
  /\ columnWidths' = MoveSize(columnWidths, sourceIndex, targetIndex)
  /\ RecordedChange
  /\ UNCHANGED <<rowHeights, selectedCell, selectedCells, editingCell,
                 sortColumn, sortDirection>>

\* a data row dragged from sourceIndex and dropped on data row targetIndex
handleRowDrop(sourceIndex, targetIndex) ==
  /\ CanRecord /\ Mounted /\ ~InputShown
  /\ sourceIndex >= 0 /\ sourceIndex < Rows /\ targetIndex >= 0 /\ targetIndex < Rows
  /\ calls' = <<>>
  /\ Recorded(MoveItem(gridData, sourceIndex, targetIndex),
              saveToHistory(heap, gridData, columns, history, historyIndex))
  /\ rowHeights' = MoveSize(rowHeights, sourceIndex, targetIndex)
  /\ RecordedChange
  /\ UNCHANGED <<columns, columnWidths, selectedCell, selectedCells, editingCell,
                 sortColumn, sortDirection>>


\* getColumnLetter(index): the loop with its accumulator
RECURSIVE ColumnLetterAcc(_, _)
ColumnLetterAcc(index, result) ==
  IF index < 0 THEN result
  ELSE ColumnLetterAcc((index \div 26) - 1, <<fromCharCode65(index % 26)>> \o result)
getColumnLetter(index) == ColumnLetterAcc(index, <<>>)
\* the position a reference text denotes, as getCellValue takes it apart:
\* row number 1 is the header row -1, row number n the data row n - 2
parseReference(cellRef) ==
  IF ~MatchesCellRef(cellRef) THEN NoCell
  ELSE LET rowNum == RefRowNum(cellRef)
       IN Pos(IF rowNum = 1 THEN -1 ELSE rowNum - 2,
              columnLetterToIndex(RefLetters(cellRef)))
\* getCellReference(row, col)
getCellReference(row, col) ==
  <<fromCharCode65(col)>> \o NatToText(IF row = -1 THEN 1 ELSE row + 2)
SetMin(S) == CHOOSE x \in S : \A y \in S : x <= y
SetMax(S) == CHOOSE x \in S : \A y \in S : x >= y
\* getSelectedRange() for a non-empty selection
getSelectedRange(sel) ==
  LET minRow == SetMin({k[1] : k \in sel})
      maxRow == SetMax({k[1] : k \in sel})
      minCol == SetMin({k[2] : k \in sel})
      maxCol == SetMax({k[2] : k \in sel})
  IN IF minRow = maxRow /\ minCol = maxCol THEN getCellReference(minRow, minCol)
     ELSE getCellReference(minRow, minCol) \o <<":">> \o getCellReference(maxRow, maxCol)
\* updated[targetRow][targetCol] = cell on a row that has at least targetCol cells
WriteOrAppend(row, c, cell) ==
  IF c < Len(row) THEN [row EXCEPT ![c + 1] = cell] ELSE Append(row, cell)
FunctionNames == { <<"S","U","M">> }

\* applyFunctionToSelection(functionName): the toolbar's Sum and Avg buttons.
\* Without added columns the rows of `updated` are the live row objects and
\* the target cell is written in place; with added columns every row is a
\* new array.  saveToHistory copies the render's gridData.
applyFunctionToSelection(functionName) ==
  LET sel == selectedCells
      range == getSelectedRange(sel)
      minRow == SetMin({k[1] : k \in sel})
      maxRow == SetMax({k[1] : k \in sel})
      minCol == SetMin({k[2] : k \in sel})
      maxCol == SetMax({k[2] : k \in sel})
      isHorizontalSelection == (maxCol - minCol) >= (maxRow - minRow)
      targetRow == IF isHorizontalSelection THEN minRow ELSE maxRow + 1
      targetCol == IF isHorizontalSelection THEN maxCol + 1 ELSE minCol
      pushRow == targetRow >= Rows
      addCols == targetCol >= Cols
      columnsToAdd == targetCol - Cols + 1
      newColumns == [i \in 1..columnsToAdd |->
                      [name |-> <<>>,
                       key |-> <<"c", "o", "l", "_", ToLowerChar(fromCharCode65(Cols + i - 1))>>]]
      n == IF pushRow THEN Rows + 1 ELSE Rows
      inBounds == targetRow >= 0 /\ targetRow < n
      base(i) == IF i <= Rows THEN heap[gridData[i]] ELSE [j \in 1..Cols |-> EmptyCell]
      ext(i) == IF addCols THEN base(i) \o [j \in 1..columnsToAdd |-> EmptyCell] ELSE base(i)
      formula == <<"=">> \o functionName \o <<"(">> \o range \o <<")">>
      result == evaluateFormula(Tail(formula), LiveGrid, columns)
      target == ext(targetRow + 1)
      cell == [value |-> result, formula |-> formula,
               format |-> IF targetCol < Len(target) THEN target[targetCol + 1].format
                          ELSE EmptyFormat]
      final(i) == IF i = targetRow + 1 THEN WriteOrAppend(ext(i), targetCol, cell) ELSE ext(i)
      shared(i) == ~addCols /\ i <= Rows
      written == IF shared(targetRow + 1)
                 THEN [heap EXCEPT ![gridData[targetRow + 1]] = final(targetRow + 1)]
                 ELSE heap
      r == saveToHistory(written, gridData, columns, history, historyIndex)
      fresh == IF addCols THEN [i \in 1..n |-> final(i)]
               ELSE IF pushRow THEN <<final(n)>> ELSE <<>>
      updated == IF addCols THEN [i \in 1..n |-> Len(r.heap) + i]
                 ELSE IF pushRow THEN Append(gridData, Len(r.heap) + 1) ELSE gridData
  IN
  /\ Mounted /\ ~InputShown
  /\ sel # {}
  /\ pushRow => Rows < MaxRows
  /\ addCols => Cols + columnsToAdd <= MaxCols
  /\ IF addCols
     THEN /\ calls' = <<Call("onAddColumns", 0, <<>>, 0, newColumns)>>
          /\ columns' = handleAddColumns(columns, newColumns)
          /\ columnWidths' = columnWidths \o [j \in 1..columnsToAdd |-> DefaultColumnWidth]
     ELSE /\ calls' = <<>>
          /\ UNCHANGED <<columns, columnWidths>>
  /\ IF inBounds
     THEN /\ CanRecord
          \* an assignment past the end of a row would leave a hole in it
          /\ targetCol <= Len(target)
          /\ Recorded(updated, [r EXCEPT !.heap = r.heap \o fresh])
          /\ rowHeights' = IF targetRow >= Len(rowHeights)
                           THEN Append(rowHeights, DefaultRowHeight) ELSE rowHeights
          /\ selectedCell' = Pos(targetRow, targetCol)
          /\ selectedCells' = {<<targetRow, targetCol>>}
          /\ Did("record")
     ELSE /\ Did("applyOutOfBounds")
          /\ UNCHANGED <<heap, gridData, history, historyIndex, rowHeights,
                         selectedCell, selectedCells>>
  /\ editStart' = NoEdit
  /\ UNCHANGED <<editingCell, sortColumn, sortDirection>>

\* ------------------------------------------------------------------------
\* Specification Spec: the mounted component with its host page
\* ------------------------------------------------------------------------
\* the state after construction for the dataset (cols, items) of the host
InitSheet(cols, items) ==
  /\ heap = [i \in 1..Len(items) |-> [j \in 1..Len(cols) |-> NewCell(items[i][j])]]
  /\ gridData = [i \in 1..Len(heap) |-> i]
  /\ columns = cols
  /\ columnWidths = [j \in 1..Len(cols) |-> DefaultColumnWidth]
  /\ rowHeights = [i \in 1..Len(heap) |-> DefaultRowHeight]
  /\ history = <<>>
  /\ historyIndex = -1
  /\ selectedCell = NoCell
  /\ selectedCells = {}
  /\ editingCell = NoCell
  /\ sortColumn = -1
  /\ sortDirection = "asc"
  /\ calls = <<>>
  /\ used = [records |-> 0, edits |-> 0]
  /\ editStart = NoEdit
InitGrid == \E items \in InitItems : InitSheet(InitColumns, items)
ViewIdle == totalRows = 0 /\ scrollTop = 0 /\ containerHeight = 0
NoCall == [name |-> <<>>, args |-> <<>>]
FormulaIdle ==
  /\ fInput = <<>> /\ fOutcome = Outcome(EmptyString, FALSE, <<>>, FALSE)
  /\ fTokens = <<>> /\ fCall = NoCall
NotComputed == <<"<none>">>
CodecIdle ==
  /\ cIndex = 0 /\ cLetter = NotComputed /\ cBack = <<>>
  /\ cPos = NoCell /\ cRef = NotComputed /\ cParsed = <<>>
NoValues == [done |-> FALSE, values |-> <<>>]
NoRef == [text |-> <<>>, row |-> -2, col |-> -2]
RangeIdle == rStart = NoRef /\ rEnd = NoRef /\ rValues = NoValues
\* the mouseup listener registered on mount reads the first render
SelectIdle ==
  /\ selectedRange = NoRange /\ isDragging = FALSE /\ dragStart = NoCell
  /\ mouseUpClosure = [isDragging |-> FALSE, selectedRange |-> NoRange]
DragIdle ==
  /\ draggedColumn = NullIndex /\ dragOverColumn = NullIndex
  /\ draggedRow = NullIndex /\ dragOverRow = NullIndex
\* the debounce effect of the first render has set its timeout
FilterIdle ==
  /\ filterText = <<>> /\ debouncedFilterText = <<>>
  /\ filterTimers = << <<>> >> /\ keystrokes = 0
UiIdle == SelectIdle /\ DragIdle /\ FilterIdle
Init == InitGrid /\ ViewIdle /\ FormulaIdle /\ CodecIdle /\ RangeIdle /\ UiIdle

\* the places the user points at: cells clicked, headers clicked, the
\* columns sorted, the headers the context menu is opened on, the drags
ClickCells == { <<0, 0>>, <<-1, 0>> }
RowHeaderRows == { 0 }
ColumnHeaderCols == { 1 }
SortCols == { 1 }
MenuCols == { 0 }
MenuRows == { 0 }
ColumnDrags == { <<0, 1>> }
RowDrags == { <<0, 1>> }
GridStep(A) == A /\ UNCHANGED <<viewVars, formulaVars, codecVars, rangeVars, uiVars>>
Next ==
  \/ GridStep(MountEffect)
  \/ \E k \in ClickCells : GridStep(handleCellClick(k[1], k[2]))
  \/ \E row \in RowHeaderRows : GridStep(handleRowHeaderClick(row))
  \/ \E col \in ColumnHeaderCols : GridStep(handleColumnHeaderClick(col))
  \/ \E k \in ClickCells : GridStep(handleDoubleClick(k[1], k[2]))
  \/ GridStep(KeyEnterOrF2)
  \/ \E key \in KeyChars : GridStep(KeyPrintable(key))
  \/ \E value \in EditTexts \cup HeaderTexts : GridStep(handleInputChange(value))
  \/ GridStep(handleInputBlur)
  \/ GridStep(Undo)
  \/ GridStep(Redo)
  \/ GridStep(KeyCtrlB)
  \/ GridStep(ToolbarBold)
  \/ GridStep(KeyDelete)
  \/ \E col \in SortCols : GridStep(handleSort(col))
  \/ \E col \in MenuCols : GridStep(insertColumnLeft(col + 1))
  \/ \E col \in MenuCols : GridStep(insertColumnRight(col))
  \/ \E row \in MenuRows : GridStep(insertRowAbove(row + 1))
  \/ \E row \in MenuRows : GridStep(insertRowBelow(row))
  \/ \E d \in ColumnDrags : GridStep(handleColumnDrop(d[1], d[2]))
  \/ \E d \in RowDrags : GridStep(handleRowDrop(d[1], d[2]))
  \/ \E f \in FunctionNames : GridStep(applyFunctionToSelection(f))
Spec == Init /\ [][Next]_vars


\* ------------------------------------------------------------------------
\* Specification SpecViewport: the virtual scrolling window
\* ------------------------------------------------------------------------
\* Math.ceil(a / b) for a >= 0, b > 0
CeilDiv(a, b) == (a + b - 1) \div b
visibleRowCount(total, height) ==
  Min2(total, CeilDiv(height, ROW_HEIGHT) + BUFFER_SIZE * 2)
startIndex(top) == Max2(0, (top \div ROW_HEIGHT) - BUFFER_SIZE)
endIndex(total, top, height) ==
  Min2(total, startIndex(top) + visibleRowCount(total, height))
\* filteredData.slice(start, end).length for an array of total elements
SliceLength(total, start, end) == Max2(0, Min2(end, total) - Min2(start, total))
\* the spacer rows of the table body: rendered only when the condition holds
leadingSpacer(top) ==
  IF startIndex(top) > 0 THEN startIndex(top) * ROW_HEIGHT ELSE 0
trailingSpacer(total, top, height) ==
  IF endIndex(total, top, height) < total
  THEN (total - endIndex(total, top, height)) * ROW_HEIGHT ELSE 0
\* the height of the table body as rendered
BodyHeight(total, top, height) ==
  leadingSpacer(top)
  + SliceLength(total, startIndex(top), endIndex(total, top, height)) * ROW_HEIGHT
  + trailingSpacer(total, top, height)

\* the row counts the filter may leave, the offsets a scroll event reports
\* (half rows), the heights the container may have
RowCounts == 0..MaxTotalRows
ScrollOffsets == { k * (ROW_HEIGHT \div 2) : k \in 0..(2 * MaxTotalRows) }
ContainerHeights == { 0, 100, 600 }

\* the debounced filter text is applied: filteredData gets another length,
\* the scroll position stays what the last scroll event reported
FilterApplied(n) ==
  /\ n \in RowCounts /\ n # totalRows
  /\ totalRows' = n
  /\ UNCHANGED <<scrollTop, containerHeight>>
\* handleScroll: the container reports an offset within what it can scroll
handleScroll(top) ==
  /\ top \in ScrollOffsets /\ top # scrollTop
  /\ top <= Max2(0, BodyHeight(totalRows, scrollTop, containerHeight) - containerHeight)
  /\ scrollTop' = top
  /\ UNCHANGED <<totalRows, containerHeight>>
\* updateContainerHeight, on mount and from the ResizeObserver
updateContainerHeight(height) ==
  /\ height \in ContainerHeights /\ height # containerHeight
  /\ containerHeight' = height
  /\ UNCHANGED <<totalRows, scrollTop>>

InitViewport ==
  /\ totalRows \in RowCounts
  /\ scrollTop = 0
  /\ containerHeight = 600
  /\ InitGrid /\ FormulaIdle /\ CodecIdle /\ RangeIdle /\ UiIdle
ViewportStep(A) == A /\ UNCHANGED <<gridVars, formulaVars, codecVars, rangeVars, uiVars>>
NextViewport ==
  \/ \E n \in RowCounts : ViewportStep(FilterApplied(n))
  \/ \E top \in ScrollOffsets : ViewportStep(handleScroll(top))
  \/ \E height \in ContainerHeights : ViewportStep(updateContainerHeight(height))
SpecViewport == InitViewport /\ [][NextViewport]_vars

\* ------------------------------------------------------------------------
\* Specification SpecFormula: evaluateFormula on formula texts
\* ------------------------------------------------------------------------
FormulaChars == { "A", "B", "1", "2", "+", "*", "(", ")", ";", "a", " ", "/" }
NotEvaluated == Outcome(EmptyString, FALSE, <<>>, FALSE)

\* one more character is typed after the formula sigil
TypeFormulaChar(c) ==
  /\ Len(fInput) < MaxFormulaLen
  /\ fInput' = Append(fInput, c)
  /\ fOutcome' = NotEvaluated
  /\ UNCHANGED <<fTokens, fCall>>
\* the last character is deleted
DeleteFormulaChar ==
  /\ fInput # <<>>
  /\ fInput' = SubSeq(fInput, 1, Len(fInput) - 1)
  /\ fOutcome' = NotEvaluated
  /\ UNCHANGED <<fTokens, fCall>>
\* evaluateFormula(fInput) over the grid of the render
Evaluate ==
  /\ fOutcome = NotEvaluated
  /\ fOutcome' = evaluateFormulaOutcome(fInput, LiveGrid, columns)
  /\ UNCHANGED <<fInput, fTokens, fCall>>

InitFormula ==
  /\ fInput = <<>>
  /\ fOutcome = NotEvaluated
  /\ fTokens = <<>> /\ fCall = NoCall
  /\ InitGrid /\ ViewIdle /\ CodecIdle /\ RangeIdle /\ UiIdle
FormulaStep(A) == A /\ UNCHANGED <<gridVars, viewVars, codecVars, rangeVars, uiVars>>
NextFormula ==
  \/ \E c \in FormulaChars : FormulaStep(TypeFormulaChar(c))
  \/ FormulaStep(DeleteFormulaChar)
  \/ FormulaStep(Evaluate)
SpecFormula == InitFormula /\ [][NextFormula]_vars


\* ------------------------------------------------------------------------
\* Specification SpecAggregate: evaluateFormula on calls of the functions
\* ------------------------------------------------------------------------
MaxArgs == 2
\* a reference as the user writes it, with the position it denotes
Ref(text, row, col) == [text |-> text, row |-> row, col |-> col]
\* an argument of a call: one reference, a range of two, or a malformed text
RefArg(x) == [kind |-> "ref", start |-> x, end |-> x]
RangeArg(x, y) == [kind |-> "range", start |-> x, end |-> y]
BadArg(text) == [kind |-> "bad", start |-> Ref(text, -2, -2), end |-> Ref(text, -2, -2)]
ArgText(a) ==
  IF a.kind = "range" THEN a.start.text \o <<":">> \o a.end.text ELSE a.start.text

\* the dataset of the calls: a label column, a column of numbers, and a
\* column with a number, an empty cell and a negative number
AggregateColumns == << [name |-> <<"P">>, key |-> <<"p">>],
                       [name |-> <<"Q">>, key |-> <<"q">>],
                       [name |-> <<"R">>, key |-> <<"r">>] >>
AggregateItems == << <<Str(<<"a">>), Num(10), Num(3)>>,
                     <<Str(<<"b">>), Num(20), EmptyString>>,
                     <<Str(<<"c">>), Num(30), Num(-5)>> >>
RefA2 == Ref(<<"A","2">>, 0, 0)
RefB1 == Ref(<<"B","1">>, -1, 1)
RefB2 == Ref(<<"B","2">>, 0, 1)
RefB4 == Ref(<<"B","4">>, 2, 1)
RefB5 == Ref(<<"B","5">>, 3, 1)
RefC2 == Ref(<<"C","2">>, 0, 2)
RefC3 == Ref(<<"C","3">>, 1, 2)
RefC4 == Ref(<<"C","4">>, 2, 2)
RefD2 == Ref(<<"D","2">>, 0, 3)
AggregateArgs ==
  { RangeArg(RefB2, RefB4), RefArg(RefC2), RefArg(RefC4), RefArg(RefC3),
    RangeArg(RefA2, RefB2), RangeArg(RefB1, RefB2), RefArg(RefD2),
    RangeArg(RefB4, RefB5), BadArg(<<"2","B">>) }
AggregateNames ==
  { <<"S","U","M">>, <<"A","V","E","R","A","G","E">>, <<"C","O","U","N","T">>,
    <<"M","A","X">>, <<"M","I","N">> }

\* the user writes the name of a function and the opening parenthesis
ChooseFunction(name) ==
  /\ fCall = NoCall
  /\ fCall' = [name |-> name, args |-> <<>>]
  /\ fInput' = name \o <<"(">>
  /\ UNCHANGED <<fOutcome, fTokens>>
\* ... one more argument, after a comma when it is not the first
AddArgument(a) ==
  /\ fCall # NoCall /\ fOutcome = NotEvaluated
  /\ Len(fCall.args) < MaxArgs
  /\ fCall' = [fCall EXCEPT !.args = Append(@, a)]
  /\ fInput' = fInput \o (IF fCall.args = <<>> THEN <<>> ELSE <<",">>) \o ArgText(a)
  /\ UNCHANGED <<fOutcome, fTokens>>
\* ... the closing parenthesis, and the text is evaluated
EvaluateCall ==
  /\ fCall # NoCall /\ fOutcome = NotEvaluated
  /\ fInput' = fInput \o <<")">>
  /\ fOutcome' = evaluateFormulaOutcome(fInput', LiveGrid, columns)
  /\ UNCHANGED <<fCall, fTokens>>

InitAggregate ==
  /\ fInput = <<>> /\ fOutcome = NotEvaluated
  /\ fTokens = <<>> /\ fCall = NoCall
  /\ InitSheet(AggregateColumns, AggregateItems)
  /\ ViewIdle /\ CodecIdle /\ RangeIdle /\ UiIdle
NextAggregate ==
  \/ \E name \in AggregateNames : FormulaStep(ChooseFunction(name))
  \/ \E a \in AggregateArgs : FormulaStep(AddArgument(a))
  \/ FormulaStep(EvaluateCall)
SpecAggregate == InitAggregate /\ [][NextAggregate]_vars

\* ------------------------------------------------------------------------
\* Specification SpecArithmetic: evaluateFormula on arithmetic formulas
\* written token by token
\* ------------------------------------------------------------------------
MaxTokens == 3
Token(text, kind) == [text |-> text, kind |-> kind]
\* references into the grid of two columns and two data rows, references
\* whose column or data row lies outside it, literals and operators
ArithmeticTokens ==
  { Token(<<"B","2">>, "inside"), Token(<<"A","2">>, "inside"),
    Token(<<"C","2">>, "outside"), Token(<<"B","9">>, "outside"),
    Token(<<"A","A","2">>, "outside"),
    Token(<<"1">>, "literal"),
    Token(<<"+">>, "operator"), Token(<<"-">>, "operator"), Token(<<"*">>, "operator") }
RECURSIVE TokensText(_)
TokensText(toks) == IF toks = <<>> THEN <<>> ELSE Head(toks).text \o TokensText(Tail(toks))

\* one more token is typed after the formula sigil
TypeFormulaToken(tok) ==
  /\ Len(fTokens) < MaxTokens /\ fOutcome = NotEvaluated
  /\ fTokens' = Append(fTokens, tok)
  /\ fInput' = fInput \o tok.text
  /\ UNCHANGED <<fOutcome, fCall>>

NextArithmetic ==
  \/ \E tok \in ArithmeticTokens : FormulaStep(TypeFormulaToken(tok))
  \/ FormulaStep(Evaluate)
SpecArithmetic == InitFormula /\ [][NextArithmetic]_vars

\* ------------------------------------------------------------------------
\* Specification SpecCodec: column index -> letters -> column index
\* ------------------------------------------------------------------------
MaxIndex == 999
CodecStep(A) == A /\ UNCHANGED <<gridVars, viewVars, formulaVars, rangeVars, uiVars>>
\* getColumnLetter(cIndex) is called
LetterOfIndex ==
  /\ cLetter = NotComputed
  /\ cLetter' = getColumnLetter(cIndex)
  /\ UNCHANGED <<cIndex, cBack, cPos, cRef, cParsed>>
\* columnLetterToIndex is called on the letters
IndexOfLetter ==
  /\ cLetter # NotComputed /\ cBack = <<>>
  /\ cBack' = <<columnLetterToIndex(cLetter)>>
  /\ UNCHANGED <<cIndex, cLetter, cPos, cRef, cParsed>>
InitCodec ==
  /\ cIndex \in 0..MaxIndex /\ cLetter = NotComputed /\ cBack = <<>>
  /\ cPos = NoCell /\ cRef = NotComputed /\ cParsed = <<>>
  /\ InitGrid /\ ViewIdle /\ FormulaIdle /\ RangeIdle /\ UiIdle
NextCodec ==
  \/ CodecStep(LetterOfIndex)
  \/ CodecStep(IndexOfLetter)
SpecCodec == InitCodec /\ [][NextCodec]_vars

\* ------------------------------------------------------------------------
\* Specification SpecReference: position -> reference text -> position
\* ------------------------------------------------------------------------
MaxRefRow == 50
MaxRefCol == 27
\* getCellReference(cPos.row, cPos.col) is called
ReferenceOfPosition ==
  /\ cRef = NotComputed
  /\ cRef' = getCellReference(cPos.row, cPos.col)
  /\ UNCHANGED <<cIndex, cLetter, cBack, cPos, cParsed>>
\* the reference text is parsed back
PositionOfReference ==
  /\ cRef # NotComputed /\ cParsed = <<>>
  /\ cParsed' = <<parseReference(cRef)>>
  /\ UNCHANGED <<cIndex, cLetter, cBack, cPos, cRef>>
InitReference ==
  /\ cPos \in { Pos(r, c) : r \in (-1)..MaxRefRow, c \in 0..MaxRefCol }
  /\ cRef = NotComputed /\ cParsed = <<>>
  /\ cIndex = 0 /\ cLetter = NotComputed /\ cBack = <<>>
  /\ InitGrid /\ ViewIdle /\ FormulaIdle /\ RangeIdle /\ UiIdle
NextReference ==
  \/ CodecStep(ReferenceOfPosition)
  \/ CodecStep(PositionOfReference)
SpecReference == InitReference /\ [][NextReference]_vars

\* ------------------------------------------------------------------------
\* Specification SpecRange: getCellsInRange on a sheet wider than 26 columns
\* ------------------------------------------------------------------------
MaxRangeCols == 28
MaxRangeRows == 2
\* a sheet of MaxRangeRows rows and MaxRangeCols columns, a different
\* non-zero number in every cell and a different name on every column
WideColumns ==
  [j \in 1..MaxRangeCols |-> [name |-> <<"N">> \o NatToText(j), key |-> <<"n">> \o NatToText(j)]]
WideItems ==
  [i \in 1..MaxRangeRows |-> [j \in 1..MaxRangeCols |-> Num(100 * i + j)]]
\* the references a range text is made of: the header row, the data rows
\* and one row below them; columns A, B, the last ones of the sheet (from
\* Z on) and one column right of it
RangeRefCols == {0, 1} \cup ((MaxRangeCols - 3)..MaxRangeCols)
RangeRefs ==
  { Ref(getColumnLetter(c) \o NatToText(IF r = -1 THEN 1 ELSE r + 2), r, c) :
      r \in (-1)..MaxRangeRows, c \in RangeRefCols }
RangeStep(A) == A /\ UNCHANGED <<gridVars, viewVars, formulaVars, codecVars, uiVars>>
\* getCellsInRange("X:Y") is called
ExpandRange ==
  /\ ~rValues.done
  /\ rValues' = [done |-> TRUE,
                 values |-> getCellsInRange(rStart.text \o <<":">> \o rEnd.text,
                                            LiveGrid, columns)]
  /\ UNCHANGED <<rStart, rEnd>>
InitRange ==
  /\ rStart \in RangeRefs /\ rEnd \in RangeRefs /\ rValues = NoValues
  /\ InitSheet(WideColumns, WideItems)
  /\ ViewIdle /\ FormulaIdle /\ CodecIdle /\ UiIdle
NextRange == RangeStep(ExpandRange)
SpecRange == InitRange /\ [][NextRange]_vars

\* ------------------------------------------------------------------------
\* Specification SpecEntry: typing into cells, ending and leaving an edit
\* ------------------------------------------------------------------------
\* a cell of the label column, one of the numeric column, and a header
EntryCells == { <<0, 0>>, <<0, 1>>, <<-1, 1>> }
EntryKeys == { "5", "x", "-" }
EventTargets == { "INPUT", "BODY" }
NextEntry ==
  \/ GridStep(MountEffect)
  \/ \E k \in EntryCells : GridStep(handleCellClick(k[1], k[2]))
  \/ \E k \in EntryCells : GridStep(handleDoubleClick(k[1], k[2]))
  \/ GridStep(KeyEnterOrF2)
  \/ \E key \in EntryKeys : GridStep(KeyPrintable(key))
  \/ \E value \in EntryTexts \cup HeaderTexts : GridStep(handleInputChange(value))
  \/ GridStep(handleInputBlur)
  \/ \E target \in EventTargets :
       KeyEscape(target)
       /\ UNCHANGED <<viewVars, formulaVars, codecVars, rangeVars, dragVars, filterVars>>
SpecEntry == Init /\ [][NextEntry]_vars

\* ------------------------------------------------------------------------
\* Specification SpecSelection: selecting cells with clicks and drags
\* ------------------------------------------------------------------------
\* the keys `${r},${c}` of the cells between two positions (the two loops)
RectKeys(a, b) ==
  { <<r, c>> : r \in Min2(a.row, b.row)..Max2(a.row, b.row),
               c \in Min2(a.col, b.col)..Max2(a.col, b.col) }
\* the effect that registers the document listeners runs again when
\* handleKeyDown is a new callback, that is when selectedCell (a new object
\* with every setSelectedCell) or editingCell changed; handleMouseUp is
\* registered by that effect only, so the registered listener reads
\* isDragging and selectedRange of the render the effect last ran in
ListenersRegistered ==
  mouseUpClosure' = [isDragging |-> isDragging', selectedRange |-> selectedRange']
\* what the handlers of this specification leave alone
SelectionFrame ==
  /\ calls' = <<>>
  /\ UNCHANGED <<heap, gridData, columns, columnWidths, rowHeights, history, historyIndex,
                 sortColumn, sortDirection, used>>
  /\ UNCHANGED <<viewVars, formulaVars, codecVars, rangeVars, dragVars, filterVars>>

\* a click without modifier keys: handleCellClick, single select branch
CellClick(row, col) ==
  /\ ~isDragging
  /\ handleCellClick(row, col)
  /\ selectedRange' = NoRange
  /\ UNCHANGED <<isDragging, dragStart>>
  /\ ListenersRegistered
  /\ UNCHANGED <<viewVars, formulaVars, codecVars, rangeVars, dragVars, filterVars>>
\* handleCellClick with e.ctrlKey || e.metaKey
CellCtrlClick(row, col) ==
  /\ Mounted /\ ~isDragging
  /\ Rendered(row, col)
  /\ selectedCells' = IF <<row, col>> \in selectedCells
                      THEN selectedCells \ {<<row, col>>}
                      ELSE selectedCells \cup {<<row, col>>}
  /\ selectedCell' = Pos(row, col)
  /\ selectedRange' = NoRange
  /\ editingCell' = NoCell
  /\ editStart' = NoEdit
  /\ UNCHANGED <<isDragging, dragStart>>
  /\ ListenersRegistered
  /\ SelectionFrame
\* handleCellClick with e.shiftKey: a range from the selected cell, or the
\* single select branch when no cell is selected
CellShiftClick(row, col) ==
  /\ Mounted /\ ~isDragging
  /\ Rendered(row, col)
  /\ IF selectedCell # NoCell
     THEN /\ selectedCells' = RectKeys(selectedCell, Pos(row, col))
          /\ selectedRange' =
               [start |-> Pos(Min2(selectedCell.row, row), Min2(selectedCell.col, col)),
                end |-> Pos(Max2(selectedCell.row, row), Max2(selectedCell.col, col))]
     ELSE /\ selectedCells' = {<<row, col>>}
          /\ selectedRange' = NoRange
  /\ selectedCell' = Pos(row, col)
  /\ editingCell' = NoCell
  /\ editStart' = NoEdit
  /\ UNCHANGED <<isDragging, dragStart>>
  /\ ListenersRegistered
  /\ SelectionFrame
\* handleCellMouseDown; with a modifier key held it returns at once
handleCellMouseDown(row, col, modifier) ==
  /\ Mounted
  /\ Rendered(row, col)
  /\ IF modifier
     THEN UNCHANGED <<isDragging, dragStart, selectedCell, selectedCells, selectedRange,
                      mouseUpClosure>>
     ELSE /\ isDragging' = TRUE
          /\ dragStart' = Pos(row, col)
          /\ selectedCell' = Pos(row, col)
          /\ selectedCells' = {<<row, col>>}
          /\ selectedRange' = NoRange
          /\ ListenersRegistered
  /\ UNCHANGED <<editingCell, editStart>>
  /\ SelectionFrame
\* handleCellMouseEnter that sets the range without the preview of the cells
MutMouseEnterRangeOnly(row, col) ==
  /\ Mounted
  /\ Rendered(row, col)
  /\ IF isDragging /\ dragStart # NoCell
     THEN selectedRange' = [start |-> dragStart, end |-> Pos(row, col)]
     ELSE UNCHANGED selectedRange
  /\ UNCHANGED <<selectedCells, isDragging, dragStart, mouseUpClosure, selectedCell, editingCell,
                 editStart>>
  /\ SelectionFrame
\* handleCellMouseEnter
handleCellMouseEnter(row, col) ==
  /\ Mounted
  /\ Rendered(row, col)
  /\ IF isDragging /\ dragStart # NoCell
     THEN /\ selectedRange' = [start |-> dragStart, end |-> Pos(row, col)]
          /\ selectedCells' = RectKeys(dragStart, Pos(row, col))
     ELSE UNCHANGED <<selectedRange, selectedCells>>
  /\ UNCHANGED <<isDragging, dragStart, mouseUpClosure, selectedCell, editingCell, editStart>>
  /\ SelectionFrame
\* handleMouseUp that leaves the transient range in place
MutMouseUpKeepsRange ==
  /\ Mounted
  /\ IF mouseUpClosure.isDragging /\ mouseUpClosure.selectedRange # NoRange
     THEN selectedCells' = RectKeys(mouseUpClosure.selectedRange.start,
                                    mouseUpClosure.selectedRange.end)
     ELSE UNCHANGED selectedCells
  /\ isDragging' = FALSE
  /\ dragStart' = NoCell
  /\ UNCHANGED <<selectedRange, mouseUpClosure, selectedCell, editingCell, editStart>>
  /\ SelectionFrame
\* handleMouseUp as registered on the document, with no resize in progress
\* (resizingColumn and resizingRow are null throughout this specification)
handleMouseUp ==
  /\ Mounted
  /\ IF mouseUpClosure.isDragging /\ mouseUpClosure.selectedRange # NoRange
     THEN selectedCells' = RectKeys(mouseUpClosure.selectedRange.start,
                                    mouseUpClosure.selectedRange.end)
     ELSE UNCHANGED selectedCells
  /\ isDragging' = FALSE
  /\ dragStart' = NoCell
  /\ selectedRange' = NoRange
  /\ UNCHANGED <<mouseUpClosure, selectedCell, editingCell, editStart>>
  /\ SelectionFrame
\* handleDoubleClick; editingCell changes, so the listeners are registered again
CellDoubleClick(row, col) ==
  /\ ~isDragging
  /\ handleDoubleClick(row, col)
  /\ UNCHANGED <<selectedRange, isDragging, dragStart>>
  /\ ListenersRegistered
  /\ UNCHANGED <<viewVars, formulaVars, codecVars, rangeVars, dragVars, filterVars>>

\* the cells the pointer reaches: the header row and the two data rows
SelectCells == { <<r, c>> : r \in (-1)..1, c \in 0..1 }
NextSelection ==
  \/ GridStep(MountEffect)
  \/ \E k \in SelectCells : CellClick(k[1], k[2])
  \/ \E k \in SelectCells : CellCtrlClick(k[1], k[2])
  \/ \E k \in SelectCells : CellShiftClick(k[1], k[2])
  \/ \E k \in SelectCells, modifier \in BOOLEAN : handleCellMouseDown(k[1], k[2], modifier)
  \/ \E k \in SelectCells : handleCellMouseEnter(k[1], k[2])
  \/ handleMouseUp
  \/ \E k \in SelectCells : CellDoubleClick(k[1], k[2])
SpecSelection == Init /\ [][NextSelection]_vars

\* ------------------------------------------------------------------------
\* Specification SpecDrop: dragging column headers and row headers
\* ------------------------------------------------------------------------
\* a drop handler returned early: no callback, nothing set but the markers
DropIgnored ==
  /\ calls' = <<>>
  /\ UNCHANGED <<heap, gridData, columns, columnWidths, rowHeights, history, historyIndex,
                 selectedCell, selectedCells, editingCell, sortColumn, sortDirection,
                 used, editStart>>
DropFrame == UNCHANGED <<viewVars, formulaVars, codecVars, rangeVars, selectVars, filterVars>>
handleColumnDragStart(colIndex) ==
  /\ Mounted /\ colIndex >= 0 /\ colIndex < Cols
  /\ draggedColumn' = colIndex
  /\ UNCHANGED <<dragOverColumn, draggedRow, dragOverRow, gridVars>>
  /\ DropFrame
handleColumnDragOver(colIndex) ==
  /\ Mounted /\ colIndex >= 0 /\ colIndex < Cols
  /\ dragOverColumn' = colIndex
  /\ UNCHANGED <<draggedColumn, draggedRow, dragOverRow, gridVars>>
  /\ DropFrame
handleColumnDragLeave ==
  /\ Mounted
  /\ dragOverColumn' = NullIndex
  /\ UNCHANGED <<draggedColumn, draggedRow, dragOverRow, gridVars>>
  /\ DropFrame
\* handleColumnDrop without the test for a drop on the dragged column itself
MutColumnDropNoSelfTest(targetIndex) ==
  /\ Mounted
  /\ IF draggedColumn = NullIndex
     THEN DropIgnored
     ELSE handleColumnDrop(draggedColumn, targetIndex)
  /\ draggedColumn' = NullIndex
  /\ dragOverColumn' = NullIndex
  /\ UNCHANGED <<draggedRow, dragOverRow>>
  /\ DropFrame
\* handleColumnDrop(targetIndex, e)
ColumnDropped(targetIndex) ==
  /\ Mounted
  /\ IF draggedColumn = NullIndex \/ draggedColumn = targetIndex
     THEN DropIgnored
     ELSE handleColumnDrop(draggedColumn, targetIndex)
  /\ draggedColumn' = NullIndex
  /\ dragOverColumn' = NullIndex
  /\ UNCHANGED <<draggedRow, dragOverRow>>
  /\ DropFrame
handleColumnDragEnd ==
  /\ Mounted
  /\ draggedColumn' = NullIndex
  /\ dragOverColumn' = NullIndex
  /\ UNCHANGED <<draggedRow, dragOverRow, gridVars>>
  /\ DropFrame
\* the row header cells, the one of the header row (index -1) included
handleRowDragStart(rowIndex) ==
  /\ Mounted /\ rowIndex >= -1 /\ rowIndex < Rows
  /\ draggedRow' = rowIndex
  /\ UNCHANGED <<draggedColumn, dragOverColumn, dragOverRow, gridVars>>
  /\ DropFrame
handleRowDragOver(rowIndex) ==
  /\ Mounted /\ rowIndex >= -1 /\ rowIndex < Rows
  /\ dragOverRow' = rowIndex
  /\ UNCHANGED <<draggedColumn, dragOverColumn, draggedRow, gridVars>>
  /\ DropFrame
handleRowDragLeave ==
  /\ Mounted
  /\ dragOverRow' = NullIndex
  /\ UNCHANGED <<draggedColumn, dragOverColumn, draggedRow, gridVars>>
  /\ DropFrame
\* handleRowDrop(targetIndex, e)
RowDropped(targetIndex) ==
  /\ Mounted /\ targetIndex >= -1 /\ targetIndex < Rows
  /\ IF draggedRow = NullIndex \/ draggedRow = targetIndex
     THEN DropIgnored
     ELSE IF (draggedRow = -1 /\ targetIndex # -1) \/ (draggedRow # -1 /\ targetIndex = -1)
     THEN DropIgnored
     ELSE handleRowDrop(draggedRow, targetIndex)
  /\ draggedRow' = NullIndex
  /\ dragOverRow' = NullIndex
  /\ UNCHANGED <<draggedColumn, dragOverColumn>>
  /\ DropFrame
handleRowDragEnd ==
  /\ Mounted
  /\ draggedRow' = NullIndex
  /\ dragOverRow' = NullIndex
  /\ UNCHANGED <<draggedColumn, dragOverColumn, gridVars>>
  /\ DropFrame

DropCols == 0..1
DropRows == (-1)..1
NextDrop ==
  \/ GridStep(MountEffect)
  \/ \E col \in DropCols : handleColumnDragStart(col)
  \/ \E col \in DropCols : handleColumnDragOver(col)
  \/ handleColumnDragLeave
  \/ \E col \in DropCols : ColumnDropped(col)
  \/ handleColumnDragEnd
  \/ \E row \in DropRows : handleRowDragStart(row)
  \/ \E row \in DropRows : handleRowDragOver(row)
  \/ handleRowDragLeave
  \/ \E row \in DropRows : RowDropped(row)
  \/ handleRowDragEnd
SpecDrop == Init /\ [][NextDrop]_vars

\* ------------------------------------------------------------------------
\* Specification SpecFilter: the filter box and its debounce effect
\* ------------------------------------------------------------------------
MaxKeystrokes == 4
FilterChars == {"a", "b"}
\* the effect without its cleanup: the timeout of the previous run stays set
MutDebounceNoCleanup(timers, text) == Append(timers, text)
\* one run of the effect for a new filterText: the cleanup of the previous
\* run clears its timeout, then a timeout that applies the text is set
debounceEffect(timers, text) == <<text>>
\* what the input can report after one keystroke: a character typed at the
\* end or the last character deleted
FilterEdits(text) ==
  { Append(text, c) : c \in FilterChars }
    \cup (IF text = <<>> THEN {} ELSE { SubSeq(text, 1, Len(text) - 1) })
FilterFrame ==
  UNCHANGED <<gridVars, viewVars, formulaVars, codecVars, rangeVars, selectVars, dragVars>>
\* onChange of the filter input, with the effect its render runs
handleFilterChange(value) ==
  /\ Mounted /\ keystrokes < MaxKeystrokes
  /\ value # filterText
  /\ filterText' = value
  /\ filterTimers' = debounceEffect(filterTimers, value)
  /\ keystrokes' = keystrokes + 1
  /\ UNCHANGED debouncedFilterText
  /\ FilterFrame
\* the callback of a timeout that is still set
TimerFires ==
  /\ Mounted
  /\ \E i \in 1..Len(filterTimers) :
       /\ debouncedFilterText' = filterTimers[i]
       /\ filterTimers' = SubSeq(filterTimers, 1, i - 1)
                            \o SubSeq(filterTimers, i + 1, Len(filterTimers))
  /\ UNCHANGED <<filterText, keystrokes>>
  /\ FilterFrame
NextFilter ==
  \/ GridStep(MountEffect)
  \/ \E value \in FilterEdits(filterText) : handleFilterChange(value)
  \/ TimerFires
\* the effects of the first render run, and a timeout that is set fires
\* after its delay
SpecFilter ==
  Init /\ [][NextFilter]_vars /\ WF_vars(GridStep(MountEffect)) /\ WF_vars(TimerFires)

\* ------------------------------------------------------------------------
\* Specification SpecDisplay: the rows the table renders (filter, window,
\* display sort)
\* ------------------------------------------------------------------------
\* t.includes(p)
IncludesText(t, p) ==
  \E i \in 1..(Len(t) - Len(p) + 1) : SubSeq(t, i, i + Len(p) - 1) = p
\* the filter text without the trim
MutLowerFilterTextUntrimmed(text) == ToLowerCase(text)
\* debouncedFilterText.toLowerCase().trim()
lowerFilterText(text) == Trim(ToLowerCase(text))
\* the callback of gridData.filter: some cell's text includes the filter text
RowPasses(row, lower) ==
  \E i \in 1..Len(row) : IncludesText(ToLowerCase(ToText(row[i].value)), lower)
\* the rows (ids, in grid order) of filteredData for the applied filter text
filteredData(h, g, text) ==
  IF text = <<>> THEN g
  ELSE SelectSeq(g, LAMBDA id : RowPasses(h[id], lowerFilterText(text)))
shouldShowHeaderRow(cols, h, g, text) ==
  IF text = <<>> THEN TRUE
  ELSE LET headerMatches ==
             \E j \in 1..Len(cols) :
               IncludesText(ToLowerCase(cols[j].name), lowerFilterText(text))
       IN headerMatches \/ Len(filteredData(h, g, text)) > 0
\* filteredData.slice(startIndex, endIndex)
visibleRows(filtered, top, height) ==
  SubSeq(filtered, startIndex(top) + 1, endIndex(Len(filtered), top, height))
\* the memo sortedData: the window sorted again by the sort column
sortedData(h, visible, col, direction) ==
  IF col = -1 THEN visible ELSE SortRows(h, visible, col, direction)
\* the data rows of the table body, top to bottom, in the current state
DisplayedRows ==
  sortedData(heap,
             visibleRows(filteredData(heap, gridData, debouncedFilterText),
                         scrollTop, containerHeight),
             sortColumn, sortDirection)
HeaderRowDisplayed == shouldShowHeaderRow(columns, heap, gridData, debouncedFilterText)
\* what the sort button of a column header shows
sortIndicator(colIndex) == IF sortColumn = colIndex THEN sortDirection ELSE "none"
\* const actualRowIndex = startIndex + visibleRowIndex
actualRowIndex(visibleRowIndex) == startIndex(scrollTop) + visibleRowIndex

DisplayColumns == << [name |-> <<"A">>, key |-> <<"a">>],
                     [name |-> <<"Q">>, key |-> <<"q">>] >>
DisplayItems == { << <<Str(<<"b">>), Num(1)>>, <<Str(<<"b","a">>), Num(2)>> >> }
DisplayChars == {"a", "B", " "}
DisplayEdits(text) ==
  { Append(text, c) : c \in DisplayChars }
    \cup (IF text = <<>> THEN {} ELSE { SubSeq(text, 1, Len(text) - 1) })
DisplaySortCols == 0..1
InitDisplay ==
  /\ \E items \in DisplayItems : InitSheet(DisplayColumns, items)
  /\ totalRows = 0 /\ scrollTop = 0 /\ containerHeight = 600
  /\ FormulaIdle /\ CodecIdle /\ RangeIdle /\ UiIdle
NextDisplay ==
  \/ GridStep(MountEffect)
  \/ \E value \in DisplayEdits(filterText) : handleFilterChange(value)
  \/ TimerFires
  \/ \E col \in DisplaySortCols : GridStep(handleSort(col))
SpecDisplay == InitDisplay /\ [][NextDisplay]_vars

\* ------------------------------------------------------------------------
\* Specification SpecLayout: insertions from the context menu, column
\* drops, undo and redo on a dataset of one column
\* ------------------------------------------------------------------------
LayoutColumns == << [name |-> <<"P">>, key |-> <<"p">>] >>
LayoutItems == { << <<Str(<<"b">>)>>, <<Str(<<"a">>)>> >> }
InitLayout ==
  /\ \E items \in LayoutItems : InitSheet(LayoutColumns, items)
  /\ ViewIdle /\ FormulaIdle /\ CodecIdle /\ RangeIdle /\ UiIdle
\* the column headers and the row headers (that of the header row included)
\* a context menu can be opened on
LayoutCols == 0..(MaxCols - 1)
LayoutRows == (-1)..(MaxRows - 1)
NextLayout ==
  \/ GridStep(MountEffect)
  \/ \E col \in LayoutCols : GridStep(insertColumnLeft(col))
  \/ \E col \in LayoutCols : GridStep(insertColumnRight(col))
  \/ \E row \in LayoutRows : GridStep(insertRowAbove(row))
  \/ \E row \in LayoutRows : GridStep(insertRowBelow(row))
  \/ \E s, t \in LayoutCols : s # t /\ GridStep(handleColumnDrop(s, t))
  \/ GridStep(Undo)
  \/ GridStep(Redo)
SpecLayout == InitLayout /\ [][NextLayout]_vars

\* ------------------------------------------------------------------------
\* Specification SpecNavigation: moving the selection with the keyboard
\* ------------------------------------------------------------------------
\* the rows that PageUp and PageDown move by
PageRows == 10
\* !gridData[r] || !gridData[r][c] || gridData[r][c].value === ''
EmptyAt(m, r, c) ==
  \/ r < 0 \/ r >= Len(m)
  \/ c >= Len(m[r + 1])
  \/ m[r + 1][c + 1].value = EmptyString
\* the loops of jumpToDataBoundary, from the index the loop variable holds
RECURSIVE JumpUp(_, _, _)
JumpUp(m, r, col) ==
  IF r = -1 \/ EmptyAt(m, r, col) THEN (IF r = -1 THEN -1 ELSE r + 1)
  ELSE IF r = 0 THEN -1
  ELSE JumpUp(m, r - 1, col)
RECURSIVE JumpDown(_, _, _, _)
JumpDown(m, r, row, col) ==
  IF r >= Len(m) THEN row
  ELSE IF EmptyAt(m, r, col) THEN r - 1
  ELSE IF r = Len(m) - 1 THEN r
  ELSE JumpDown(m, r + 1, row, col)
RECURSIVE JumpLeft(_, _, _, _)
JumpLeft(m, c, row, col) ==
  IF c < 0 THEN col
  ELSE IF row = -1 \/ EmptyAt(m, row, c) THEN c + 1
  ELSE IF c = 0 THEN 0
  ELSE JumpLeft(m, c - 1, row, col)
RECURSIVE JumpRight(_, _, _, _, _)
JumpRight(m, c, row, col, columnCount) ==
  IF c >= columnCount THEN col
  ELSE IF row = -1 \/ EmptyAt(m, row, c) THEN c - 1
  ELSE IF c = columnCount - 1 THEN c
  ELSE JumpRight(m, c + 1, row, col, columnCount)
\* the cell jumpToDataBoundary(direction) selects from the cell (row, col)
jumpToDataBoundary(direction, row, col, m, columnCount) ==
  CASE direction = "up" ->
         Pos(IF row = -1 THEN row ELSE JumpUp(m, row - 1, col), col)
    [] direction = "down" ->
         Pos(IF row = -1 THEN 0 ELSE JumpDown(m, row + 1, row, col), col)
    [] direction = "left" -> Pos(row, JumpLeft(m, col - 1, row, col))
    [] direction = "right" -> Pos(row, JumpRight(m, col + 1, row, col, columnCount))
\* the cell that handleKeyDown selects for a navigation key pressed while
\* the cell (row, col) is selected and no cell is edited; NoCell when the
\* handler calls no setter
navigationTarget(key, row, col, m, columnCount) ==
  CASE key = "ArrowUp" -> IF row > -1 THEN Pos(row - 1, col) ELSE NoCell
    [] key = "ArrowDown" ->
         IF row = -1 THEN Pos(0, col)
         ELSE IF row < Len(m) - 1 THEN Pos(row + 1, col) ELSE NoCell
    [] key = "ArrowLeft" -> IF col > 0 THEN Pos(row, col - 1) ELSE NoCell
    [] key = "ArrowRight" -> IF col < columnCount - 1 THEN Pos(row, col + 1) ELSE NoCell
    [] key = "Shift+Tab" ->
         IF col > 0 THEN Pos(row, col - 1)
         ELSE IF row > -1 THEN Pos(row - 1, columnCount - 1) ELSE NoCell
    [] key = "Tab" ->
         IF col < columnCount - 1 THEN Pos(row, col + 1)
         ELSE IF row < Len(m) - 1 THEN Pos(row + 1, 0) ELSE NoCell
    [] key = "Home" -> Pos(row, 0)
    [] key = "End" -> Pos(row, columnCount - 1)
    [] key = "PageUp" -> Pos(Max2(-1, row - PageRows), col)
    [] key = "PageDown" -> Pos(Min2(Len(m) - 1, row + PageRows), col)
    [] key = "Ctrl+Home" -> Pos(-1, 0)
    [] key = "Ctrl+End" -> Pos(Len(m) - 1, columnCount - 1)
    [] key = "Ctrl+ArrowUp" -> jumpToDataBoundary("up", row, col, m, columnCount)
    [] key = "Ctrl+ArrowDown" -> jumpToDataBoundary("down", row, col, m, columnCount)
    [] key = "Ctrl+ArrowLeft" -> jumpToDataBoundary("left", row, col, m, columnCount)
    [] key = "Ctrl+ArrowRight" -> jumpToDataBoundary("right", row, col, m, columnCount)
NavigationKeys ==
  {"ArrowUp", "ArrowDown", "ArrowLeft", "ArrowRight", "Tab", "Shift+Tab", "Home", "End",
   "PageUp", "PageDown", "Ctrl+Home", "Ctrl+End", "Ctrl+ArrowUp", "Ctrl+ArrowDown",
   "Ctrl+ArrowLeft", "Ctrl+ArrowRight"}
\* handleKeyDown for a navigation key, dispatched outside an input
KeyNavigate(key) ==
  LET target == navigationTarget(key, selectedCell.row, selectedCell.col, LiveGrid, Cols)
  IN
  /\ Mounted
  /\ selectedCell # NoCell /\ editingCell = NoCell
  /\ UNCHANGED <<isDragging, dragStart, editingCell, editStart>>
  /\ IF target = NoCell
     THEN UNCHANGED <<selectedCell, selectedCells, selectedRange, mouseUpClosure>>
     ELSE /\ selectedCell' = target
          /\ selectedCells' = {<<target.row, target.col>>}
          /\ selectedRange' = NoRange
          /\ ListenersRegistered
  /\ SelectionFrame

\* the datasets: no row, one row, and rows with an empty cell
NavigationColumns == << [name |-> <<"P">>, key |-> <<"p">>],
                        [name |-> <<"Q">>, key |-> <<"q">>] >>
NavigationItems ==
  { <<>>,
    << <<Str(<<"a">>), Num(1)>> >>,
    << <<Str(<<"a">>), Num(1)>>, <<EmptyString, Num(2)>> >>,
    << <<Str(<<"a">>), EmptyString>>, <<Str(<<"b">>), Num(2)>>, <<Str(<<"c">>), Num(3)>> >> }
NavigationCells == { <<r, c>> : r \in (-1)..(MaxRows - 1), c \in 0..1 }
InitNavigation ==
  /\ \E items \in NavigationItems : InitSheet(NavigationColumns, items)
  /\ ViewIdle /\ FormulaIdle /\ CodecIdle /\ RangeIdle /\ UiIdle
NextNavigation ==
  \/ GridStep(MountEffect)
  \/ \E k \in NavigationCells : CellClick(k[1], k[2])
  \/ \E k \in NavigationCells : CellCtrlClick(k[1], k[2])
  \/ \E k \in NavigationCells : CellShiftClick(k[1], k[2])
  \/ \E key \in NavigationKeys : KeyNavigate(key)
  \/ \E target \in EventTargets :
       KeyEscape(target)
       /\ UNCHANGED <<viewVars, formulaVars, codecVars, rangeVars, dragVars, filterVars>>
SpecNavigation == InitNavigation /\ [][NextNavigation]_vars

\* ------------------------------------------------------------------------
\* Specification SpecSort: handleSort on a column that mixes numbers and text
\* ------------------------------------------------------------------------
MaxSortRows == 3
SortColumns == << [name |-> <<"V">>, key |-> <<"v">>] >>
\* numbers, numeric texts and a text that starts with a digit
SortValues == { Num(2), Num(10), Str(<<"1","a">>), Str(<<"1","0">>), Str(<<"9">>) }
\* the datasets: two rows or more, a different value in every row
SortItems ==
  UNION { { [i \in 1..n |-> <<f[i]>>] :
              f \in { g \in [1..n -> SortValues] :
                        \A i, j \in 1..n : i # j => g[i] # g[j] } } :
          n \in 2..MaxSortRows }
InitSort ==
  /\ \E items \in SortItems : InitSheet(SortColumns, items)
  /\ ViewIdle /\ FormulaIdle /\ CodecIdle /\ RangeIdle /\ UiIdle
NextSort ==
  \/ GridStep(MountEffect)
  \/ GridStep(handleSort(0))
SpecSort == InitSort /\ [][NextSort]_vars

\* ------------------------------------------------------------------------
\* Properties
\* ------------------------------------------------------------------------
\* entry i (counted from 1) of the history hist, by value
HistoryValue(h, hist, i) ==
  [gridData |-> View(h, hist[i].gridData), columns |-> hist[i].columns]
\* the step called saveToHistory
RecordStep == used'.records = used.records + 1
\* the step moved the cursor of an initialised history without recording:
\* only undo and redo do
CursorStep == Mounted /\ historyIndex' # historyIndex /\ ~RecordStep
\* what the undo and redo of the current render would do
UndoNow == undo(heap, gridData, columns, history, historyIndex)
RedoNow == redo(heap, gridData, columns, history, historyIndex)
RedoAfter(u) ==
  redo(u.heap, u.gridData, ApplyHeaderCalls(columns, u.calls), history, u.historyIndex)
SameCells(g1, g2) ==
  /\ Len(g1) = Len(g2)
  /\ \A i \in 1..Len(g1) : Len(g1[i]) = Len(g2[i])

\* C1: with at least two recorded mutations in the history, undo followed
\* immediately by redo leaves the live grid deep-equal to the grid as it was
\* just before the undo.
C1_UndoThenRedoRestoresGrid ==
  (Mounted /\ ~InputShown /\ Len(history) >= 3 /\ historyIndex > 0)
    => LET r == RedoAfter(UndoNow)
       IN DeepEqual(View(r.heap, r.gridData), LiveGrid)

\* C2: whenever a handler records a history entry, the snapshot stored at
\* the cursor deep-equals the grid that results from that handler.
C2_SnapshotIsResultingGrid ==
  [][RecordStep =>
       DeepEqual(View(heap', history'[historyIndex' + 1].gridData), LiveGrid')]_vars

\* C3: recording with the cursor at index k discards the entries after k,
\* appends exactly one entry, leaves the entries 0..k as they were and puts the
\* cursor on the new last index, so that redo does nothing right afterwards.
C3_RecordTruncatesAndAppends ==
  [][RecordStep =>
       /\ Len(history') = historyIndex + 2
       /\ historyIndex' = Len(history') - 1
       /\ \A i \in 1..(historyIndex + 1) :
            HistoryValue(heap', history', i) = HistoryValue(heap, history, i)
       /\ ~redo(heap', gridData', columns', history', historyIndex').acted]_vars
\* two mutations were recorded and one of them was discarded by the other
C3_Witness ==
  used.records = 2 /\ Len(history) = 2 /\ historyIndex = 1

\* C4: undo with the cursor at or below 0 and redo with the cursor on the
\* last entry change nothing and call nothing; otherwise the cursor moves by
\* exactly one, the history stays as it is and the whole grid is replaced by
\* the snapshot at the new cursor.
C4_UndoRedoFrame ==
  [][/\ historyIndex <= 0 =>
          UndoNow = Restore(FALSE, heap, gridData, historyIndex, <<>>)
     /\ historyIndex >= Len(history) - 1 =>
          RedoNow = Restore(FALSE, heap, gridData, historyIndex, <<>>)
     /\ CursorStep =>
          /\ historyIndex' \in {historyIndex - 1, historyIndex + 1}
          /\ historyIndex' >= 0 /\ historyIndex' < Len(history)
          /\ Len(history') = Len(history)
          /\ \A i \in 1..Len(history) :
               HistoryValue(heap', history', i) = HistoryValue(heap, history, i)
          /\ LiveGrid' = HistoryValue(heap, history, historyIndex' + 1).gridData]_vars
\* an undo has acted: the cursor is below the last entry and the grid is the
\* snapshot there, which differs from the one undone
C4_Witness ==
  /\ Mounted /\ historyIndex = 0 /\ Len(history) = 2
  /\ LiveGrid = HistoryGrid(0)
  /\ HistoryGrid(0) # HistoryGrid(1)

\* C5: history entries share no row with the live grid or with one another,
\* and no handler changes the contents of an entry that stays in the history.
NoSharing ==
  /\ \A e \in 1..Len(history) : Range(history[e].gridData) \cap Range(gridData) = {}
  /\ \A e, f \in 1..Len(history) :
       e # f => Range(history[e].gridData) \cap Range(history[f].gridData) = {}
C5_HistoryIsolated ==
  [][/\ NoSharing'
     /\ \A i \in 1..Min2(Len(history), Len(history')) :
          (i <= historyIndex + 1 \/ ~RecordStep)
            => HistoryValue(heap', history', i) = HistoryValue(heap, history, i)]_vars
\* a cell of a grid restored by undo is being typed into, and the live grid
\* has moved away from the snapshot it was restored from
C5_Witness ==
  /\ Mounted /\ historyIndex < Len(history) - 1
  /\ editingCell # NoCell /\ used.edits > 0
  /\ ~DeepEqual(LiveGrid, HistoryGrid(historyIndex))

\* C6: after an edit of a data cell has been committed, one undo makes the
\* value and the formula of that cell what they were before the edit began
\* and every other cell what it was before the edit.
C6_UndoRevertsCommittedEdit ==
  (editStart # NoEdit /\ editStart.row >= 0 /\ editingCell = NoCell)
    => LET after == View(UndoNow.heap, UndoNow.gridData)
           before == editStart.grid
       IN /\ SameCells(after, before)
          /\ \A i \in 1..Len(before) : \A j \in 1..Len(before[i]) :
               IF i = editStart.row + 1 /\ j = editStart.col + 1
               THEN /\ after[i][j].value = before[i][j].value
                    /\ EqForm(after[i][j]).formula = EqForm(before[i][j]).formula
               ELSE EqForm(after[i][j]) = EqForm(before[i][j])

\* C7: in every reachable state every row of the grid has exactly as many
\* cells as the host has columns.
C7_RowsMatchColumns ==
  \A i \in 1..Len(gridData) : Len(heap[gridData[i]]) = Len(columns)

\* C8: for every row count, scroll offset and container height the window
\* satisfies 0 <= startIndex <= endIndex <= totalRows.
C8_WindowWithinRows ==
  /\ 0 <= startIndex(scrollTop)
  /\ startIndex(scrollTop) <= endIndex(totalRows, scrollTop, containerHeight)
  /\ endIndex(totalRows, scrollTop, containerHeight) <= totalRows

\* C9: leading spacer + rows of the slice * rowHeight + trailing spacer
\* equals totalRows * rowHeight.
C9_HeightsAddUp ==
  BodyHeight(totalRows, scrollTop, containerHeight) = totalRows * ROW_HEIGHT

\* C10: eval is called only on a substituted text that consists solely of
\* digits, + - * / . ( ) and spaces; a substituted text with any other
\* character yields "#ERROR!" and is not evaluated.
WhitelistChars == Range(DigitChars) \cup {"+", "-", "*", "/", ".", "(", ")", " "}
OnlyWhitelisted(t) == \A i \in DOMAIN t : t[i] \in WhitelistChars
C10_EvalOnlyWhitelisted ==
  /\ fOutcome.evaluated => OnlyWhitelisted(fOutcome.expression)
  /\ (fOutcome.arithmetic /\ ~OnlyWhitelisted(fOutcome.expression))
       => (fOutcome.result = ErrorMarker /\ ~fOutcome.evaluated)
\* a formula with a cell reference was substituted and evaluated
C10_Witness ==
  /\ fOutcome.evaluated
  /\ \E i \in DOMAIN fInput : IsUpper(ToUpperChar(fInput[i]))

\* the text fInput has been handed to evaluateFormula
FormulaEvaluated == fOutcome # NotEvaluated
UpperFormula == Trim(ToUpperCase(fInput))
AggregatePrefixes == {TextSUM, TextAVERAGE, TextCOUNT, TextMAX, TextMIN}
AggregateCall(t) == \E p \in AggregatePrefixes : StartsWith(t, p)

\* C11: evaluateFormula never throws to its caller; it returns "#ERROR!" for
\* a text that is neither an arithmetic expression, a call of one of the five
\* functions nor a single cell reference, and for a text whose evaluation
\* raises.
C11_NeverThrows ==
  FormulaEvaluated =>
    /\ fOutcome.result # Thrown
    /\ ( /\ ~(~Includes(UpperFormula, "(") /\ LooksArithmetic(UpperFormula))
         /\ ~AggregateCall(UpperFormula)
         /\ ~MatchesCellRef(UpperFormula) ) => fOutcome.result = ErrorMarker
    /\ (fOutcome.evaluated /\ EvalRaises(fOutcome.expression))
         => fOutcome.result = ErrorMarker
\* eval raised a SyntaxError on the substituted text of a formula
C11_Witness ==
  FormulaEvaluated /\ fOutcome.evaluated /\ EvalRaises(fOutcome.expression)

\* C12: a text beginning with '=' entered into any data cell, of a text
\* column or of a numeric column, makes the cell's value the result of
\* evaluating the text after the sigil and its formula the entered text; a
\* plain value entered afterwards removes the formula and the error.
C12_FormulaTextStored ==
  Mounted =>
    \A r \in 0..(Rows - 1) : \A c \in 0..(RowLen(r) - 1) : \A v \in EditTexts :
      LET cell == inputChangeCell(LiveGrid, columns, r, c, v)
      IN IF Head(v) = "="
         THEN /\ cell.value = evaluateFormula(Tail(v), LiveGrid, columns)
              /\ cell.formula = v
         ELSE (~isNumericColumn(LiveGrid, c) \/ isValidNumericInput(v))
                => /\ EqForm(cell).formula = AbsentKey
                   /\ cell.value # ErrorMarker

\* the positions of the inclusive rectangle spanned by two references
Rectangle(x, y) ==
  { Pos(r, c) : r \in Min2(x.row, y.row)..Max2(x.row, y.row),
                c \in Min2(x.col, y.col)..Max2(x.col, y.col) }
ArgCells(a) == IF a.kind = "bad" THEN {} ELSE Rectangle(a.start, a.end)
\* the position is a data cell of the grid and the cell holds a number
HoldsNumber(p) == HasCell(p.row, p.col) /\ CellAt(p.row, p.col).value.t = "num"
NumberCells(a) == { p \in ArgCells(a) : HoldsNumber(p) }
RECURSIVE SumCells(_)
SumCells(S) ==
  IF S = {} THEN 0
  ELSE LET p == CHOOSE q \in S : TRUE
       IN CellAt(p.row, p.col).value.n + SumCells(S \ {p})
\* total, count and set of the numbers in the cells of all arguments
RECURSIVE TotalOf(_)
TotalOf(args) ==
  IF args = <<>> THEN 0 ELSE SumCells(NumberCells(Head(args))) + TotalOf(Tail(args))
RECURSIVE CountOf(_)
CountOf(args) ==
  IF args = <<>> THEN 0 ELSE Cardinality(NumberCells(Head(args))) + CountOf(Tail(args))
NumbersOf(args) ==
  { CellAt(p.row, p.col).value.n : p \in UNION { NumberCells(args[i]) : i \in DOMAIN args } }
AllNumbers(args) ==
  /\ args # <<>>
  /\ \A i \in DOMAIN args :
       args[i].kind # "bad" /\ \A p \in ArgCells(args[i]) : HoldsNumber(p)
CallOf(name) == FormulaEvaluated /\ fCall.name = name

\* C13: over argument ranges whose cells all hold numbers SUM returns their
\* total, AVERAGE the total divided by their count, MAX the largest and MIN
\* the smallest, over all arguments together; the header row is not part of
\* a range that starts at row 2.
C13_AggregatesOverNumbers ==
  (FormulaEvaluated /\ AllNumbers(fCall.args)) =>
    LET r == fOutcome.result
        total == TotalOf(fCall.args)
        count == CountOf(fCall.args)
        numbers == NumbersOf(fCall.args)
    IN /\ fCall.name = <<"S","U","M">> => r = Num(total)
       /\ fCall.name = <<"A","V","E","R","A","G","E">>
            => r.t = "num" /\ r.n * count = total * r.d
       /\ fCall.name = <<"M","A","X">> => r = Num(SetMax(numbers))
       /\ fCall.name = <<"M","I","N">> => r = Num(SetMin(numbers))
\* AVERAGE was evaluated over two arguments whose cells all hold numbers
C13_Witness ==
  /\ CallOf(<<"A","V","E","R","A","G","E">>)
  /\ Len(fCall.args) = 2 /\ AllNumbers(fCall.args)
  /\ fCall.args[1].kind = "range"

\* C14: COUNT returns the number of cells of its arguments whose stored
\* value is a number; empty cells, text cells, cells outside the grid and
\* malformed references are not counted.
C14_CountsNumbersOnly ==
  CallOf(<<"C","O","U","N","T">>) => fOutcome.result = Num(CountOf(fCall.args))

\* C15: MAX and MIN are taken over the cells that hold numbers only, and are
\* 0 when no cell of the arguments holds a number.
C15_ExtremaOverNumbersOnly ==
  LET numbers == NumbersOf(fCall.args)
  IN /\ CallOf(<<"M","A","X">>) =>
          fOutcome.result = (IF numbers = {} THEN Num(0) ELSE Num(SetMax(numbers)))
     /\ CallOf(<<"M","I","N">>) =>
          fOutcome.result = (IF numbers = {} THEN Num(0) ELSE Num(SetMin(numbers)))

\* what a reference resolves to: the column name for row 1, the stored value
\* of the data cell otherwise, 0 for an empty cell and outside the grid
ResolvedValue(ref) ==
  LET col == columnLetterToIndex(RefLetters(ref))
      rowNum == RefRowNum(ref)
  IN IF rowNum = 1
     THEN (IF col < Cols THEN Str(columns[col + 1].name) ELSE EmptyString)
     ELSE IF HasCell(rowNum - 2, col) /\ ~Falsy(CellAt(rowNum - 2, col).value)
          THEN CellAt(rowNum - 2, col).value
          ELSE Num(0)

\* C16: a formula that consists of exactly one valid cell reference
\* evaluates to the resolved value of that cell: the column name for row 1,
\* the stored value of the data cell otherwise, a text value as that text.
C16_SingleReferenceResolves ==
  (FormulaEvaluated /\ MatchesCellRef(UpperFormula))
    => fOutcome.result = ResolvedValue(UpperFormula)

\* operands and operators alternate, beginning and ending with an operand
Alternates(toks) ==
  /\ Len(toks) % 2 = 1
  /\ \A i \in DOMAIN toks : (i % 2 = 0) <=> (toks[i].kind = "operator")
\* the tokens with every reference outside the grid replaced by the literal 0
RECURSIVE OutsideAsZero(_)
OutsideAsZero(toks) ==
  IF toks = <<>> THEN <<>>
  ELSE <<IF Head(toks).kind = "outside" THEN Token(<<"0">>, "literal") ELSE Head(toks)>>
       \o OutsideAsZero(Tail(toks))

\* C17: a well-formed reference whose data row or column lies outside the
\* grid resolves to 0: an arithmetic formula with such a reference evaluates
\* to the number it has with 0 in the place of the reference, not to
\* "#ERROR!".
C17_OutsideReferenceIsZero ==
  (FormulaEvaluated /\ Alternates(fTokens) /\ \E i \in DOMAIN fTokens : fTokens[i].kind = "outside")
    => /\ fOutcome.result.t = "num"
       /\ fOutcome.result = evaluateFormula(TokensText(OutsideAsZero(fTokens)), LiveGrid, columns)
\* a literal minus a reference to a column outside the grid was evaluated
C17_Witness ==
  /\ FormulaEvaluated /\ Len(fTokens) = 3
  /\ fTokens[1].kind = "literal" /\ fTokens[2].text = <<"-">> /\ fTokens[3].kind = "outside"
  /\ fOutcome.result = Num(1)

\* C18: for every column index i below 1000,
\* columnLetterToIndex(getColumnLetter(i)) = i, and getColumnLetter gives
\* different letters for different indices (A for 0, Z for 25, AA for 26).
C18_ColumnLetterRoundTrip ==
  /\ cBack # <<>> => cBack[1] = cIndex
  /\ cLetter # NotComputed =>
       /\ \A j \in 0..(cIndex - 1) : getColumnLetter(j) # cLetter
       /\ cIndex = 0 => cLetter = <<"A">>
       /\ cIndex = 25 => cLetter = <<"Z">>
       /\ cIndex = 26 => cLetter = <<"A","A">>
\* the index 702, the first one of three letters, went there and back
C18_Witness ==
  cIndex = 702 /\ cLetter = <<"A","A","A">> /\ cBack = <<702>>

\* C19: for every position with row in -1..50 and every column index,
\* also of 26 and above, the reference text of getCellReference parses back
\* to the position.
C19_ReferenceRoundTrip ==
  cParsed # <<>> => cParsed[1] = cPos

\* the value a position resolves to: the column name on the header row,
\* the value of a data cell, 0 for an empty cell and outside the grid
ValueAtPosition(p) ==
  IF p.row = -1
  THEN (IF p.col < Cols THEN Str(columns[p.col + 1].name) ELSE EmptyString)
  ELSE IF HasCell(p.row, p.col) /\ ~Falsy(CellAt(p.row, p.col).value)
       THEN CellAt(p.row, p.col).value
       ELSE Num(0)
Occurrences(values, v) == Cardinality({ i \in DOMAIN values : values[i] = v })
\* the sequence holds the values of the cells, each cell once
HoldsValuesOf(values, cells) ==
  /\ Len(values) = Cardinality(cells)
  /\ \A p \in cells :
       Occurrences(values, ValueAtPosition(p))
         = Cardinality({ q \in cells : ValueAtPosition(q) = ValueAtPosition(p) })
SameCollection(v, w) ==
  /\ Len(v) = Len(w)
  /\ \A i \in DOMAIN v : Occurrences(v, v[i]) = Occurrences(w, v[i])
\* C20: for two valid references X and Y the range "X:Y" expands to the
\* values of exactly the cells of the inclusive rectangle spanned by X and
\* Y, for every column index including multi-letter columns, and "Y:X"
\* expands to the same collection as "X:Y".
C20_RangeIsRectangle ==
  rValues.done =>
    /\ HoldsValuesOf(rValues.values, Rectangle(rStart, rEnd))
    /\ SameCollection(rValues.values,
                      getCellsInRange(rEnd.text \o <<":">> \o rStart.text, LiveGrid, columns))

\* the value parses as a number: a number, or a text of digits with an
\* optional sign
ParsesAsNumber(v) ==
  \/ v.t = "num"
  \/ /\ v.t = "str" /\ ~Includes(v.s, ".")
     /\ isValidNumericInput(v.s) /\ NumberOf(v.s) # NaN
NumberParsed(v) == IF v.t = "num" THEN v ELSE NumberOf(v.s)
\* a comes before b, or ties with it, in the ascending order of the claim
BeforeOrTied(a, b) ==
  IF ParsesAsNumber(a) /\ ParsesAsNumber(b)
  THEN NumCmp(NumberParsed(a), NumberParsed(b)) <= 0
  ELSE ~TextLess(ToLowerCase(ToText(b)), ToLowerCase(ToText(a)))
\* the rows have been sorted by the column
SortedBy(col) == Mounted /\ sortColumn = col
\* C21: sorting by a column compares two cells numerically whenever both
\* values parse as numbers (also numeric texts such as "10" and "9"), and
\* otherwise by their lower-cased string forms; descending is the opposite
\* order.  Stated on the sheets of two rows, where the one comparison made
\* decides the order.
C21_SortComparesNumbers ==
  (SortedBy(0) /\ Rows = 2) =>
    IF sortDirection = "asc"
    THEN BeforeOrTied(CellAt(0, 0).value, CellAt(1, 0).value)
    ELSE BeforeOrTied(CellAt(1, 0).value, CellAt(0, 0).value)

ColumnValues(col) == { CellAt(r, col).value : r \in 0..(Rows - 1) }
RowOrders(g) ==
  { [i \in 1..Len(g) |-> g[f[i]]] :
      f \in { h \in [1..Len(g) -> 1..Len(g)] :
                \A i, j \in 1..Len(g) : i # j => h[i] # h[j] } }
ValuesOf(g, col) == [i \in 1..Len(g) |-> heap[g[i]][col + 1].value]
\* C22: the comparator of the sort is a total order on the values of a
\* column that mixes numbers and text: antisymmetric and transitive, so the
\* sorted order of distinct values does not depend on the order of the rows
\* before the sort.
C22_ComparatorTotalOrder ==
  SortedBy(0) =>
    LET V == ColumnValues(0)
        cmp(a, b) == CompareValues(a, b, sortDirection)
    IN /\ \A a, b \in V : cmp(a, b) < 0 => cmp(b, a) > 0
       /\ \A a, b, c \in V : (cmp(a, b) <= 0 /\ cmp(b, c) <= 0) => cmp(a, c) <= 0
       /\ (\A a, b \in V : a # b => cmp(a, b) # 0) =>
            \A g \in RowOrders(gridData) :
              ValuesOf(SortRows(heap, g, 0, sortDirection), 0) = ValuesOf(gridData, 0)

\* the handler left grid, editing state, selection and history as they were
Discarded ==
  /\ View(heap', gridData') = LiveGrid
  /\ UNCHANGED <<editingCell, selectedCell, selectedCells, history, historyIndex>>
C30_EscapeDiscardsEdit ==
  [][ \A target \in EventTargets :
        (editingCell # NoCell /\ KeyEscape(target)) =>
          /\ editingCell' = NoCell
          /\ View(heap', gridData') = editStart.grid
          /\ history' = history /\ historyIndex' = historyIndex ]_vars

\* the keys of the positions of the rectangle spanned by two positions
RectangleKeys(a, b) == { <<p.row, p.col>> : p \in Rectangle(a, b) }
RectangleSize(a, b) == (Abs(a.row - b.row) + 1) * (Abs(a.col - b.col) + 1)
\* C24: a click without modifier keys on a cell makes it the primary cell,
\* makes the selected set exactly that cell, sets selectedRange to null and
\* ends editing, whatever was selected before.
C24_PlainClickSelectsOne ==
  [][ \A k \in SelectCells :
        CellClick(k[1], k[2]) =>
          /\ selectedCell' = Pos(k[1], k[2])
          /\ selectedCells' = {k}
          /\ selectedRange' = NoRange
          /\ editingCell' = NoCell ]_vars
\* a click has made the cell B3 the selection, with no drag under way
C24_Witness ==
  /\ selectedCell = Pos(1, 1) /\ selectedCells = {<<1, 1>>}
  /\ selectedRange = NoRange /\ editingCell = NoCell
  /\ ~isDragging /\ ~mouseUpClosure.isDragging

C26_CtrlClickToggles ==
  [][ \A k \in SelectCells :
        CellCtrlClick(k[1], k[2]) =>
          /\ selectedCells' = (selectedCells \ {k}) \cup ({k} \ selectedCells)
          /\ selectedRange' = selectedRange ]_vars

NothingReordered ==
  /\ calls' = <<>>
  /\ UNCHANGED <<heap, gridData, columns, columnWidths, rowHeights, history, historyIndex,
                 selectedCell, selectedCells, editingCell, sortColumn, sortDirection>>
\* C28: dropping a column or a row onto its own index, the header row onto
\* a data row, or a data row onto the header row, leaves the grid, the
\* column list, the column widths, the row heights and the history
\* unchanged and calls no reorder callback; only the drag markers are reset
\* to null.
C28_InvalidDropIgnored ==
  [][ /\ \A target \in DropCols :
          (draggedColumn = target /\ ColumnDropped(target)) =>
            /\ NothingReordered
            /\ draggedColumn' = NullIndex /\ dragOverColumn' = NullIndex
            /\ UNCHANGED <<draggedRow, dragOverRow>>
      /\ \A target \in DropRows :
          ( /\ draggedRow # NullIndex
            /\ \/ draggedRow = target
               \/ draggedRow = -1 /\ target # -1
               \/ draggedRow # -1 /\ target = -1
            /\ RowDropped(target) ) =>
            /\ NothingReordered
            /\ draggedRow' = NullIndex /\ dragOverRow' = NullIndex
            /\ UNCHANGED <<draggedColumn, dragOverColumn>> ]_vars
\* after a recorded reorder the header row is dragged and hovers over the
\* data row 1, the position from which the drop is ignored, while the column
\* B is dragged over itself
C28_Witness ==
  /\ Mounted /\ Len(history) = 2
  /\ draggedRow = -1 /\ dragOverRow = 0
  /\ draggedColumn = 1 /\ dragOverColumn = 1

\* C29: a burst of filter keystrokes, each arriving before the timeout of
\* the previous one has fired, changes the applied filter only once, to the
\* last text typed: a timeout superseded by a newer keystroke never applies
\* its text (the only timeout set is the one of the last text, and the
\* applied filter changes only when it fires, to the typed filter), and
\* once typing stops the applied filter eventually equals the typed filter.
C29_DebounceAppliesLastText ==
  /\ [](\A i \in 1..Len(filterTimers) : i = 1 /\ filterTimers[i] = filterText)
  /\ [][debouncedFilterText' # debouncedFilterText =>
         /\ filterTimers # <<>> /\ filterTimers' = <<>>
         /\ UNCHANGED filterText
         /\ debouncedFilterText' = filterText]_vars
  /\ <>[](debouncedFilterText = filterText /\ filterTimers = <<>>)
\* two keystrokes have arrived in a burst: nothing has been applied yet and
\* the one timeout set is the one of the second keystroke
C29_Witness ==
  /\ keystrokes = 2 /\ filterText = <<"a", "b">>
  /\ debouncedFilterText = <<>>
  /\ filterTimers = <<filterText>>

\* the text t contains the text p when the case of letters is ignored
ContainsIgnoringCase(t, p) ==
  \E i \in 0..(Len(t) - Len(p)) :
    \A k \in 1..Len(p) : ToLowerChar(t[i + k]) = ToLowerChar(p[k])
\* the data row at grid index r is among the rows of the table body
RowShown(r) == \E k \in 1..Len(DisplayedRows) : DisplayedRows[k] = gridData[r + 1]
\* some cell value of the data row r, as text, contains the trimmed filter
RowHasMatch(r) ==
  \E c \in 0..(RowLen(r) - 1) :
    ContainsIgnoringCase(ToText(CellAt(r, c).value), Trim(debouncedFilterText))
InsertedAt(old, new, k, x) ==
  /\ Len(new) = Len(old) + 1
  /\ k < Len(new) /\ new[k + 1] = x
  /\ \A j \in 1..Len(old) : new[IF j <= k THEN j ELSE j + 1] = old[j]
\* C32: inserting a column at index i ("left" of column i, or "right" of
\* column i-1) calls onInsertColumn(i, column) once, inserts one empty cell
\* at index i of every row and one default width at index i of the widths,
\* and leaves every other cell in its row with its contents and relative
\* order.
C32_InsertColumnAtIndex ==
  [][\A i \in 0..MaxCols :
       ((i < Cols /\ insertColumnLeft(i)) \/ (i > 0 /\ insertColumnRight(i - 1))) =>
         /\ Len(calls') = 1
         /\ calls'[1].name = "onInsertColumn" /\ calls'[1].index = i
         /\ Len(gridData') = Rows
         /\ \A r \in 1..Rows :
              InsertedAt(LiveGrid[r], View(heap', gridData')[r], i, EmptyCell)
         /\ InsertedAt(columnWidths, columnWidths', i, DefaultColumnWidth)]_vars

\* C33: insert-row-above on data row r inserts one row of columns.length
\* empty cells at index r and insert-row-below at index r+1; invoked on the
\* header row (index -1) both insert at data index 0 and never touch the
\* header; the row heights grow by one default entry at the same index and
\* all existing rows keep their contents and relative order.
C33_InsertRowAtIndex ==
  [][\A r \in LayoutRows :
       LET RowInserted(k) ==
             /\ InsertedAt(LiveGrid, View(heap', gridData'), k,
                           [j \in 1..Cols |-> EmptyCell])
             /\ InsertedAt(rowHeights, rowHeights', k, DefaultRowHeight)
             /\ UNCHANGED columns
       IN /\ insertRowAbove(r) => RowInserted(IF r = -1 THEN 0 ELSE r)
          /\ insertRowBelow(r) => RowInserted(IF r = -1 THEN 0 ELSE r + 1)]_vars
\* a row of empty cells stands between the two rows of the dataset, with
\* its default height, and the insertion is recorded
C33_Witness ==
  /\ Mounted /\ Rows = 3 /\ Len(history) = 2 /\ historyIndex = 1
  /\ LiveGrid[2] = [j \in 1..Cols |-> EmptyCell]
  /\ LiveGrid[1][1].value = Str(<<"b">>) /\ LiveGrid[3][1].value = Str(<<"a">>)
  /\ rowHeights = <<DefaultRowHeight, DefaultRowHeight, DefaultRowHeight>>

\* C34: a column drop from source index s onto target index t # s moves,
\* in every row, the cell at s to position t, applies the same move to the
\* column widths and, through onReorderColumns(s, t), to the host's column
\* list, so that every column key keeps exactly the cells it had and every
\* row keeps the same cells.
C34_ColumnDropMovesColumn ==
  [][\A s, t \in LayoutCols :
       (s # t /\ handleColumnDrop(s, t)) =>
         LET old == LiveGrid
             new == View(heap', gridData')
         IN /\ calls' = <<Call("onReorderColumns", s, <<>>, t, <<>>)>>
            /\ columns' = MoveItem(columns, s, t)
            /\ columnWidths' = MoveItem(columnWidths, s, t)
            /\ Len(new) = Len(old)
            /\ \A r \in 1..Len(old) :
                 /\ Len(new[r]) = Len(old[r])
                 /\ t < Len(new[r]) /\ new[r][t + 1] = old[r][s + 1]
                 /\ \A j \in 1..Cols, k \in 1..Cols :
                      columns'[k].key = columns[j].key =>
                        /\ j <= Len(old[r]) <=> k <= Len(new[r])
                        /\ j <= Len(old[r]) => new[r][k] = old[r][j]]_vars

\* C35: after any sequence of arrow, Tab/Shift+Tab, Home/End,
\* Ctrl+Home/End, PageUp/PageDown and Ctrl+Arrow commands, on a grid with
\* any number of data rows (including none), the primary cell satisfies
\* -1 <= row <= rowCount-1 and 0 <= col <= columnCount-1; a move that would
\* leave the grid leaves the selection where it is, Tab at the last column
\* wraps to column 0 of the next row and Shift+Tab at column 0 wraps to the
\* last column of the previous row.
C35_PrimaryCellWithinGrid ==
  /\ [](selectedCell # NoCell =>
          /\ -1 <= selectedCell.row /\ selectedCell.row <= Rows - 1
          /\ 0 <= selectedCell.col /\ selectedCell.col <= Cols - 1)
  /\ [][/\ (KeyNavigate("Tab") /\ selectedCell.col = Cols - 1
                               /\ selectedCell.row < Rows - 1) =>
            selectedCell' = Pos(selectedCell.row + 1, 0)
        /\ (KeyNavigate("Shift+Tab") /\ selectedCell.col = 0
                                     /\ selectedCell.row > -1) =>
            selectedCell' = Pos(selectedCell.row - 1, Cols - 1)
        /\ \A key \in {"ArrowUp", "ArrowDown", "ArrowLeft", "ArrowRight"} :
             (KeyNavigate(key) /\ Rendered(selectedCell.row, selectedCell.col)) =>
               \/ UNCHANGED <<selectedCell, selectedCells>>
               \/ Rendered(selectedCell'.row, selectedCell'.col)]_vars

\* C39: after any sequence of clicks, modifier-clicks, drags and keys, the
\* primary cell and the selected set agree: whenever the selected set is
\* non-empty the primary cell is a member of it, and whenever the primary
\* cell is set the selected set is non-empty.
C39_PrimaryCellInSelectedSet ==
  /\ selectedCells # {} => <<selectedCell.row, selectedCell.col>> \in selectedCells
  /\ selectedCell # NoCell => selectedCells # {}

HasFormula(cell) == cell.formula \notin {AbsentKey, UndefinedValue}
\* C37: in every reachable state, every cell that has a formula holds the
\* value obtained by evaluating that formula against the current grid:
\* after a cell referenced by a formula is changed (by edit, clear, sort,
\* insert, reorder or undo), the formula cell's value reflects the change.
C37_FormulaValuesCurrent ==
  \A r \in 0..(Rows - 1) : \A c \in 0..(RowLen(r) - 1) :
    HasFormula(CellAt(r, c)) =>
      CellAt(r, c).value = evaluateFormula(Tail(CellAt(r, c).formula), LiveGrid, columns)

\* C38: the row index that the table passes to the selection, edit, format,
\* clear, insert and drag handlers for a displayed row always denotes, in
\* the grid store, the row that is displayed there: while a filter is
\* applied, and after a sort followed by an edit in the sorted column, an
\* edit made on a displayed row changes that row and no other.
C38_DisplayedRowIsGridRow ==
  \A k \in 1..Len(DisplayedRows) :
    /\ actualRowIndex(k - 1) < Rows
    /\ gridData[actualRowIndex(k - 1) + 1] = DisplayedRows[k]

\* C40: a column that isNumericColumn reports as numeric stays numeric
\* after any accepted keystroke or input change in one of its cells: every
\* value stored in the column remains a number or the empty string, also
\* when the accepted seed character is '.' or '-'.
C40_NumericColumnStaysNumeric ==
  [][\A c \in 1..(MaxCols - 1) :
       ( /\ isNumericColumn(LiveGrid, c)
         /\ \/ \E key \in EntryKeys : KeyPrintable(key) /\ selectedCell.col = c
            \/ \E value \in EntryTexts : handleInputChange(value) /\ editingCell.col = c ) =>
         /\ isNumericColumn(View(heap', gridData'), c)
         /\ \A i \in 1..Len(gridData') :
              \/ heap'[gridData'[i]][c + 1].value = EmptyString
              \/ TypeofNumber(heap'[gridData'[i]][c + 1].value)]_vars

====
